---- MODULE Spec2Model ----
(***************************************************************************)
(* A model of v1dit/voyagent-api: the airport resolution, flight search    *)
(* and normalisation of code/agents/flight_agent.py, the model-based       *)
(* pipeline and HTTP endpoint of code/main.py and the composite pipeline   *)
(* of code/agents/intelligent_flight_agent.py.                             *)
(*                                                                         *)
(* Python strings are sequences of one-character strings, so lower(),      *)
(* upper(), strip(), replace() and split() are computed and not assumed.   *)
(* Python None is the one-element tuple None: no string equals it.         *)
(***************************************************************************)
EXTENDS Integers, Sequences, FiniteSets, TLC

VARIABLES
    sky_id_map,   \* FlightAgent.sky_id_map of code/agents/flight_agent.py
    api_key,      \* FlightAgent.api_key: TRUE when RAPIDAPI_KEY is set
    use_mock,     \* USE_MOCK of code/main.py
    memo,         \* history: first code each new city resolved to dynamically
    op,           \* the operation that ran last
    args,         \* its arguments
    result,       \* what it returned
    calls,        \* the external calls it made, in order
    threads       \* requests running get_sky_id_dynamic at once: where each
                  \* stands and its local variables

vars == <<sky_id_map, api_key, use_mock, memo, op, args, result, calls, threads>>

----------------------------------------------------------------------------
(* Strings *)

None == <<"None">>

LowerLetters == <<"a", "b", "c", "d", "e", "f", "g", "h", "i", "j", "k", "l", "m",
                  "n", "o", "p", "q", "r", "s", "t", "u", "v", "w", "x", "y", "z">>

UpperLetters == <<"A", "B", "C", "D", "E", "F", "G", "H", "I", "J", "K", "L", "M",
                  "N", "O", "P", "Q", "R", "S", "T", "U", "V", "W", "X", "Y", "Z">>

\* the letter tables, indexed by character
ToLower == [c \in {UpperLetters[i] : i \in DOMAIN UpperLetters} |->
              LowerLetters[CHOOSE i \in DOMAIN UpperLetters : UpperLetters[i] = c]]

ToUpper == [c \in {LowerLetters[i] : i \in DOMAIN LowerLetters} |->
              UpperLetters[CHOOSE i \in DOMAIN LowerLetters : LowerLetters[i] = c]]

LowerChar(c) == IF c \in DOMAIN ToLower THEN ToLower[c] ELSE c

UpperChar(c) == IF c \in DOMAIN ToUpper THEN ToUpper[c] ELSE c

\* str.lower()
Lower(s) == [i \in DOMAIN s |-> LowerChar(s[i])]

\* str.upper()
Upper(s) == [i \in DOMAIN s |-> UpperChar(s[i])]

IsSpace(c) == c = " "

\* str.strip(): leading and trailing whitespace removed
Strip(s) ==
    LET idx == {i \in DOMAIN s : ~IsSpace(s[i])}
    IN  IF idx = {} THEN <<>>
        ELSE LET lo == CHOOSE i \in idx : \A j \in idx : i <= j
                 hi == CHOOSE i \in idx : \A j \in idx : j <= i
             IN  SubSeq(s, lo, hi)

\* whether sub occurs in s at position i
OccursAt(s, sub, i) ==
    /\ i >= 1
    /\ i + Len(sub) - 1 <= Len(s)
    /\ \A k \in 1..Len(sub) : s[i + k - 1] = sub[k]

\* the Python test `sub in s`
Contains(s, sub) == \E i \in 1..(Len(s) + 1) : OccursAt(s, sub, i)

RECURSIVE ReplaceFrom(_, _, _, _)
ReplaceFrom(s, old, new, i) ==
    IF i > Len(s) THEN <<>>
    ELSE IF OccursAt(s, old, i)
         THEN new \o ReplaceFrom(s, old, new, i + Len(old))
         ELSE <<s[i]>> \o ReplaceFrom(s, old, new, i + 1)

\* str.replace(old, new) for a non-empty old: leftmost, non-overlapping
Replace(s, old, new) == ReplaceFrom(s, old, new, 1)

\* str.split(): the whitespace-separated words; <<>> when there is none
RECURSIVE SplitFrom(_, _, _)
SplitFrom(s, i, word) ==
    IF i > Len(s) THEN (IF word = <<>> THEN <<>> ELSE <<word>>)
    ELSE IF IsSpace(s[i])
         THEN (IF word = <<>> THEN <<>> ELSE <<word>>) \o SplitFrom(s, i + 1, <<>>)
         ELSE SplitFrom(s, i + 1, Append(word, s[i]))

Split(s) == SplitFrom(s, 1, <<>>)

\* Python truthiness of a string-or-None value
Truthy(v) == v /= None /\ v /= <<>>

\* a JSON number where null may stand as well
JNum(n) == <<"num", n>>

\* Python truthiness of a number-or-None value
NumTruthy(v) == v /= None /\ v[2] /= 0

----------------------------------------------------------------------------
(* Dictionaries: a dict is a function whose DOMAIN is its key set *)

DictGet(d, k, default) == IF k \in DOMAIN d THEN d[k] ELSE default

DictSet(d, k, v) == [x \in DOMAIN d \cup {k} |-> IF x = k THEN v ELSE d[x]]

EmptyDict == [x \in {} |-> None]

----------------------------------------------------------------------------
(* The flight-search response and its normalisation                         *)
(* code/agents/flight_agent.py, FlightAgent._process_flight_results         *)

\* A price as the API may send it under pricingOptions[0].price.amount:
\* a JSON number, a decimal string, a non-numeric string, or null.
PriceNum(n) == [kind |-> "num", v |-> n]
PriceStr(n) == [kind |-> "numstr", v |-> n]
PriceText == [kind |-> "text", v |-> 0]
PriceNull == [kind |-> "null", v |-> 0]

\* the default "N/A" of price_info.get("price", {}).get("amount", "N/A")
PriceNA == PriceText

\* float(price): the number of a JSON number or decimal string; a ValueError
\* (other strings) or TypeError (null) otherwise
FloatRaises(price) == price.kind \notin {"num", "numstr"}

\* a variant that defaults to 0 where float() raises
get_price_for_sorting_zero(price) ==
    IF FloatRaises(price) THEN [fin |-> TRUE, v |-> 0]
    ELSE [fin |-> TRUE, v |-> price.v]

\* get_price_for_sorting: float('inf') when float() raises
get_price_for_sorting(price) ==
    IF FloatRaises(price) THEN [fin |-> FALSE, v |-> 0]
    ELSE [fin |-> TRUE, v |-> price.v]

\* a < b on sort keys, inf being above every number and not below itself
KeyLess(a, b) == a.fin /\ (~b.fin \/ a.v < b.v)

\* list.sort(key=...): stable, so an offer goes after the offers already in
\* place whose key is not greater
RECURSIVE InsertByKey(_, _)
InsertByKey(sorted, offer) ==
    IF sorted = <<>> THEN <<offer>>
    ELSE IF KeyLess(get_price_for_sorting(offer.price),
                    get_price_for_sorting(sorted[1].price))
         THEN <<offer>> \o sorted
         ELSE <<sorted[1]>> \o InsertByKey(Tail(sorted), offer)

RECURSIVE SortByPrice(_)
SortByPrice(flights) ==
    IF flights = <<>> THEN <<>>
    ELSE InsertByKey(SortByPrice(SubSeq(flights, 1, Len(flights) - 1)),
                     flights[Len(flights)])

\* itineraries[:10]
TopN == 10

Take(s, n) == SubSeq(s, 1, IF Len(s) < n THEN Len(s) ELSE n)

\* the local variable `leg` before its first assignment
Unbound == [unbound |-> TRUE]

\* the one-way record of lines 583-598, read from the variable `leg`
OneWayOffer(leg, price, itinerary) ==
    [type |-> "one-way",
     airline |-> leg.airline,
     flightNumber |-> leg.flightNumber,
     price |-> price,
     departureTime |-> leg.departureTime,
     arrivalTime |-> leg.arrivalTime,
     stops |-> leg.stops,
     duration |-> leg.duration,
     itineraryId |-> itinerary.id]

LegDetails(leg) ==
    [airline |-> leg.airline,
     flightNumber |-> leg.flightNumber,
     departureTime |-> leg.departureTime,
     arrivalTime |-> leg.arrivalTime,
     stops |-> leg.stops,
     duration |-> leg.duration]

\* the round-trip record of lines 559-579
RoundTripOffer(legs, price, itinerary) ==
    [type |-> "roundtrip",
     price |-> price,
     outbound |-> LegDetails(legs[1]),
     return |-> LegDetails(legs[2]),
     itineraryId |-> itinerary.id]

\* a variant that takes a return date alone for a round trip and reads
\* legs[1] of an itinerary that has one leg
LoopBodyReturnLeg(st, itinerary, return_date) ==
    IF st.raised /= "" THEN st
    ELSE IF itinerary.legs = <<>> THEN st
    ELSE IF itinerary.pricing.options = "empty"
         THEN [st EXCEPT !.raised = "IndexError"]
    ELSE IF Truthy(return_date) /\ Len(itinerary.legs) = 1
         THEN [st EXCEPT !.raised = "IndexError"]
    ELSE LET price == IF itinerary.pricing.options = "missing" THEN PriceNA
                      ELSE itinerary.pricing.amount
             leg == IF Len(itinerary.legs) = 2 /\ Truthy(return_date)
                    THEN st.leg
                    ELSE itinerary.legs[1]
         IN  IF leg = Unbound
             THEN [st EXCEPT !.raised = "UnboundLocalError"]
             ELSE [st EXCEPT !.leg = leg,
                             !.flights = Append(@, OneWayOffer(leg, price, itinerary))]

\* One pass of the loop body (lines 533-600) over the loop state st:
\* st.flights is processed_flights, st.leg the variable `leg`, st.raised the
\* exception that left the loop. The statements of lines 583-598 stand after
\* the if/else, at the level of the loop body: they run in both branches and
\* assign processed_flight again, as a one-way record read from `leg`, which
\* the round-trip branch does not assign. The round-trip record of lines
\* 559-579 is therefore never appended.
LoopBody(st, itinerary, return_date) ==
    IF st.raised /= "" THEN st
    ELSE IF itinerary.legs = <<>> THEN st
    ELSE IF itinerary.pricing.options = "empty"
         THEN [st EXCEPT !.raised = "IndexError"]
    ELSE LET price == IF itinerary.pricing.options = "missing" THEN PriceNA
                      ELSE itinerary.pricing.amount
             leg == IF Len(itinerary.legs) = 2 /\ Truthy(return_date)
                    THEN st.leg
                    ELSE itinerary.legs[1]
         IN  IF leg = Unbound
             THEN [st EXCEPT !.raised = "UnboundLocalError"]
             ELSE [st EXCEPT !.leg = leg,
                             !.flights = Append(@, OneWayOffer(leg, price, itinerary))]

RECURSIVE Loop(_, _, _)
Loop(st, itineraries, return_date) ==
    IF itineraries = <<>> THEN st
    ELSE Loop(LoopBody(st, Head(itineraries), return_date),
              Tail(itineraries), return_date)

\* a variant that returns, beside the error, the offers made before it
ProcessFlightResultsPartial(api_response, return_date) ==
    IF api_response.itineraries = <<>>
    THEN [data |-> <<>>, count |-> 0, message |-> "No flights found"]
    ELSE LET st == Loop([flights |-> <<>>, leg |-> Unbound, raised |-> ""],
                        Take(api_response.itineraries, TopN), return_date)
             sorted == SortByPrice(st.flights)
         IN  IF st.raised /= ""
             THEN [data |-> sorted, count |-> Len(sorted), error |-> <<st.raised>>]
             ELSE [data |-> sorted, count |-> Len(sorted)]

\* _process_flight_results(api_response, return_date)
ProcessFlightResults(api_response, return_date) ==
    IF api_response.itineraries = <<>>
    THEN [data |-> <<>>, count |-> 0, message |-> "No flights found"]
    ELSE LET st == Loop([flights |-> <<>>, leg |-> Unbound, raised |-> ""],
                        Take(api_response.itineraries, TopN), return_date)
         IN  IF st.raised /= ""
             THEN [data |-> <<>>, count |-> 0, error |-> <<st.raised>>]
             ELSE LET sorted == SortByPrice(st.flights)
                  IN  [data |-> sorted, count |-> Len(sorted)]

----------------------------------------------------------------------------
(* Airport resolution of code/agents/flight_agent.py *)

\* The entries of FlightAgent.sky_id_map (lines 27-313) under the names the
\* model resolves: "new york", "nyc", "la", "dallas"
StaticSkyIdMap ==
    LET keys == {<<"n", "e", "w", " ", "y", "o", "r", "k">>, <<"n", "y", "c">>,
                 <<"l", "a">>, <<"d", "a", "l", "l", "a", "s">>}
    IN  [k \in keys |->
            CASE k = <<"n", "e", "w", " ", "y", "o", "r", "k">> -> <<"N", "Y", "C", "A">>
              [] k = <<"n", "y", "c">> -> <<"N", "Y", "C", "A">>
              [] k = <<"l", "a">> -> <<"L", "A", "X", "A">>
              [] k = <<"d", "a", "l", "l", "a", "s">> -> <<"D", "F", "W", "A">>]

\* _get_sky_id(city): the mapped code, else the upper-cased name followed by "A"
GetSkyId(map, city) ==
    LET c == Lower(city) IN DictGet(map, c, Upper(c) \o <<"A">>)

\* skyIds the airport-search service may answer with
ApiSkyIds == {<<"R", "N", "O">>, <<"E", "L", "P">>}

\* What requests.get / raise_for_status / response.json() of lines 347-349
\* can yield: an exception, or a body whose "data" is a list of airports
AirportResponses ==
    {[kind |-> "error", airports |-> <<>>], [kind |-> "ok", airports |-> <<>>]}
    \cup {[kind |-> "ok", airports |-> <<[skyId |-> c]>>] :
            c \in ApiSkyIds \cup {None, <<>>}}

\* a request to the airport search and the response it met
AirportSearchCall(city_name, resp) == [svc |-> "airport_search", query |-> city_name, reply |-> resp]

\* lines 346-361, given the response
SearchReturn(resp) ==
    IF resp.kind = "error" THEN None
    ELSE IF resp.airports /= <<>> THEN resp.airports[1].skyId
    ELSE None

\* a variant that sends the request without looking at the key
SearchAirportCodeUnkeyed(key, city_name) ==
    {[ret |-> SearchReturn(resp), calls |-> <<AirportSearchCall(city_name, resp)>>] :
        resp \in AirportResponses}

\* search_airport_code(city_name): every outcome [ret, calls] it can have
SearchAirportCode(key, city_name) ==
    IF ~key THEN {[ret |-> None, calls |-> <<>>]}
    ELSE {[ret |-> SearchReturn(resp), calls |-> <<AirportSearchCall(city_name, resp)>>] :
            resp \in AirportResponses}

\* a variant that keys the cache by the name as given
CacheKeyAsGiven(city) == city

\* city_lower = city.lower()
CacheKey(city) == Lower(city)

\* a variant that starts the cache afresh from the static table
MemoizeAfresh(map, city_lower, sky_id) == DictSet(StaticSkyIdMap, city_lower, sky_id)

\* a variant that forgets the code it found
MemoizeNothing(map, city_lower, sky_id) == map

\* self.sky_id_map[city_lower] = sky_id
Memoize(map, city_lower, sky_id) == DictSet(map, city_lower, sky_id)

\* building the list `variations` raises IndexError when the name holds a
\* space and no word: city.split()[0]
VariationsRaise(city) == Contains(city, <<" ">>) /\ Split(city) = <<>>

\* lines 383-388
Variations(city) ==
    <<city,
      Replace(city, <<" ">>, <<>>),
      IF Contains(city, <<" ">>) THEN Split(city)[1] ELSE city,
      Replace(Replace(city, <<"n", "e", "w", " ", "y", "o", "r", "k">>, <<"n", "y", "c">>),
              <<"l", "o", "s", " ", "a", "n", "g", "e", "l", "e", "s">>, <<"l", "a">>)>>

Resolved(ret, map, made) == [ret |-> ret, map |-> map, calls |-> made, raised |-> ""]

Raised(exc, map, made) == [ret |-> None, map |-> map, calls |-> made, raised |-> exc]

\* the loop of lines 390-397 from variation i on, after the calls `made`
RECURSIVE TryVariations(_, _, _, _, _, _)
TryVariations(map, key, city, variations, i, made) ==
    IF i > Len(variations) THEN {Resolved(None, map, made)}
    ELSE IF variations[i] = city
         THEN TryVariations(map, key, city, variations, i + 1, made)
         ELSE UNION {IF Truthy(s.ret)
                     THEN {Resolved(s.ret, Memoize(map, CacheKey(city), s.ret),
                                    made \o s.calls)}
                     ELSE TryVariations(map, key, city, variations, i + 1,
                                        made \o s.calls) :
                     s \in SearchAirportCode(key, variations[i])}

\* get_sky_id_dynamic(city): every outcome [ret, map, calls, raised]
GetSkyIdDynamic(map, key, city) ==
    IF CacheKey(city) \in DOMAIN map
    THEN {Resolved(map[CacheKey(city)], map, <<>>)}
    ELSE UNION {IF Truthy(s.ret)
                THEN {Resolved(s.ret, Memoize(map, CacheKey(city), s.ret), s.calls)}
                ELSE IF VariationsRaise(city)
                     THEN {Raised("IndexError", map, s.calls)}
                     ELSE TryVariations(map, key, city, Variations(city), 1, s.calls) :
                s \in SearchAirportCode(key, city)}

----------------------------------------------------------------------------
(* Inputs of the normaliser *)

\* the longest itinerary list the normaliser is run on
MaxItins == 2

\* A leg, as the .get() chains of lines 548-576 and 583-596 read it
LegA == [airline |-> "DemoAir", flightNumber |-> "DA100",
         departureTime |-> "08:00", arrivalTime |-> "12:00",
         stops |-> 0, duration |-> 240]

LegB == [airline |-> "Unknown Airline", flightNumber |-> "",
         departureTime |-> "", arrivalTime |-> "",
         stops |-> 1, duration |-> 0]

LegLists == {<<>>, <<LegA>>, <<LegB>>, <<LegB, LegA>>, <<LegA, LegB, LegA>>}

\* itinerary["pricing"]["pricingOptions"]: absent, an empty list, or a list
\* whose first entry carries price.amount
Pricings ==
    {[options |-> "missing", amount |-> PriceNA],
     [options |-> "empty", amount |-> PriceNA]}
    \cup {[options |-> "present", amount |-> a] :
            a \in {PriceNum(300), PriceStr(100), PriceNull}}

ItineraryShapes == [legs : LegLists, pricing : Pricings]

\* itineraries of the API carry distinct ids: here, the position in the list
WithIds(shapes) ==
    [i \in DOMAIN shapes |->
        [id |-> i, legs |-> shapes[i].legs, pricing |-> shapes[i].pricing]]

ItineraryLists ==
    UNION {{WithIds(sh) : sh \in [1..n -> ItineraryShapes]} : n \in 0..MaxItins}

Date1 == <<"2", "0", "2", "5", "-", "0", "7", "-", "1", "0">>

Date2 == <<"2", "0", "2", "5", "-", "0", "7", "-", "1", "3">>

ReturnDates == {None, Date2}

----------------------------------------------------------------------------
(* Flight search of code/agents/flight_agent.py *)

\* an f-string message: its literal text, then the formatted value
Msg(text, value) == <<text>> \o value

\* dict merge {**a, **b}
Merge(a, b) == [k \in DOMAIN a \cup DOMAIN b |-> IF k \in DOMAIN b THEN b[k] ELSE a[k]]

\* params of lines 481-493
FlightParams(origin_sky_id, dest_sky_id, departure_date, return_date, passengers) ==
    LET params == [originSkyId |-> origin_sky_id,
                   destinationSkyId |-> dest_sky_id,
                   departureDate |-> departure_date,
                   adults |-> passengers,
                   cabinClass |-> "economy",
                   currency |-> "USD",
                   sort |-> "price"]
    IN  IF Truthy(return_date)
        THEN Merge(params, [returnDate |-> return_date])
        ELSE params

\* a request to the flight search and the response it met
FlightSearchCall(params, resp) == [svc |-> "flight_search", params |-> params, reply |-> resp]

\* itinerary lists the flight-search service answers with in the pipelines
FlightItineraryLists ==
    {<<>>,
     WithIds(<<[legs |-> <<LegA>>,
                pricing |-> [options |-> "present", amount |-> PriceNum(300)]]>>),
     WithIds(<<[legs |-> <<LegB>>,
                pricing |-> [options |-> "present", amount |-> PriceNull]],
               [legs |-> <<LegA, LegB>>,
                pricing |-> [options |-> "present", amount |-> PriceStr(100)]]>>)}

\* str(e) of a failed request: a transport error, an error status, a body
\* that is not JSON
FailureTexts == {<<"Read timed out.">>, <<"500 Server Error">>, <<"Expecting value">>}

\* What lines 500-504 can yield: an exception (transport error, error status,
\* unparsable body), or the parsed body
FlightResponses ==
    {[kind |-> "error", text |-> t] : t \in FailureTexts}
    \cup {[kind |-> "ok", body |-> [status |-> "complete", itineraries |-> its]] :
            its \in FlightItineraryLists}
    \cup {[kind |-> "ok", body |-> [status |-> "incomplete", itineraries |-> its]] :
            its \in {its \in FlightItineraryLists : Len(its) = 1}}

\* a variant that gives nothing back for a response that is not complete
FlightSearchReturnCompleteOnly(resp, return_date) ==
    IF resp.kind = "error" THEN [error |-> resp.text]
    ELSE IF resp.body.status = "incomplete"
    THEN [data |-> <<>>, count |-> 0, message |-> "No flights found"]
    ELSE ProcessFlightResults(resp.body, return_date)

\* lines 499-516, given the response
FlightSearchReturn(resp, return_date) ==
    IF resp.kind = "error" THEN [error |-> resp.text]
    ELSE ProcessFlightResults(resp.body, return_date)

\* a variant that checks the airport codes only after the search
GetFlightsSearchFirst(map, key, origin, destination, departure_date, return_date, passengers) ==
    UNION {IF o.raised /= "" THEN {o}
      ELSE UNION {IF d.raised /= "" THEN {Raised(d.raised, d.map, o.calls \o d.calls)}
        ELSE LET params == FlightParams(o.ret, d.ret, departure_date, return_date,
                                        passengers)
             IN  {LET made == (o.calls \o d.calls) \o <<FlightSearchCall(params, resp)>>
                  IN  IF ~Truthy(o.ret)
                      THEN Resolved([error |-> Msg("Could not find airport code for origin: ",
                                                   origin)], d.map, made)
                      ELSE IF ~Truthy(d.ret)
                      THEN Resolved([error |-> Msg("Could not find airport code for destination: ",
                                                   destination)], d.map, made)
                      ELSE Resolved(FlightSearchReturn(resp, return_date), d.map, made) :
                    resp \in FlightResponses} :
        d \in GetSkyIdDynamic(o.map, key, destination)} :
      o \in GetSkyIdDynamic(map, key, origin)}

\* get_flights(origin, destination, departure_date, return_date, passengers):
\* every outcome [ret, map, calls, raised]
GetFlights(map, key, origin, destination, departure_date, return_date, passengers) ==
    UNION {IF o.raised /= "" THEN {o}
      ELSE UNION {IF d.raised /= "" THEN {Raised(d.raised, d.map, o.calls \o d.calls)}
        ELSE IF ~Truthy(o.ret)
        THEN {Resolved([error |-> Msg("Could not find airport code for origin: ", origin)],
                       d.map, o.calls \o d.calls)}
        ELSE IF ~Truthy(d.ret)
        THEN {Resolved([error |-> Msg("Could not find airport code for destination: ",
                                      destination)],
                       d.map, o.calls \o d.calls)}
        ELSE LET params == FlightParams(o.ret, d.ret, departure_date, return_date,
                                        passengers)
             IN  {Resolved(FlightSearchReturn(resp, return_date), d.map,
                           (o.calls \o d.calls) \o <<FlightSearchCall(params, resp)>>) :
                    resp \in FlightResponses} :
        d \in GetSkyIdDynamic(o.map, key, destination)} :
      o \in GetSkyIdDynamic(map, key, origin)}

----------------------------------------------------------------------------
(* Pattern-based extraction of code/agents/flight_agent.py. A query is      *)
(* given by what its five patterns (lines 406-415) match in it: the         *)
(* captured groups, or None where a pattern does not match.                 *)

MonthNames ==
    <<<<"J", "a", "n", "u", "a", "r", "y">>, <<"F", "e", "b", "r", "u", "a", "r", "y">>,
      <<"M", "a", "r", "c", "h">>, <<"A", "p", "r", "i", "l">>, <<"M", "a", "y">>,
      <<"J", "u", "n", "e">>, <<"J", "u", "l", "y">>, <<"A", "u", "g", "u", "s", "t">>,
      <<"S", "e", "p", "t", "e", "m", "b", "e", "r">>, <<"O", "c", "t", "o", "b", "e", "r">>,
      <<"N", "o", "v", "e", "m", "b", "e", "r">>, <<"D", "e", "c", "e", "m", "b", "e", "r">>>>

\* datetime.strptime(word, '%B').month, else strptime(word, '%b').month, else
\* None; both formats match without regard to case, %b the first three letters
MonthOf(word) ==
    LET full == {m \in DOMAIN MonthNames : Lower(MonthNames[m]) = Lower(word)}
        abbr == {m \in DOMAIN MonthNames :
                    Lower(SubSeq(MonthNames[m], 1, 3)) = Lower(word)}
    IN  IF full /= {} THEN CHOOSE m \in full : TRUE
        ELSE IF abbr /= {} THEN CHOOSE m \in abbr : TRUE
        ELSE 0

Digits == <<"0", "1", "2", "3", "4", "5", "6", "7", "8", "9">>

\* f"{n:02d}" for 0 <= n < 100
TwoDigits(n) == <<Digits[(n \div 10) + 1], Digits[(n % 10) + 1]>>

\* f"{current_year}": datetime.now().year when the model's queries are made
YearText == <<"2", "0", "2", "5">>

\* f"{current_year}-{month:02d}-{day:02d}"
IsoDate(month, day) == YearText \o <<"-">> \o TwoDigits(month) \o <<"-">> \o TwoDigits(day)

\* int(text) of a string of decimal digits
RECURSIVE ParseInt(_)
ParseInt(text) ==
    IF text = <<>> THEN 0
    ELSE 10 * ParseInt(SubSeq(text, 1, Len(text) - 1))
         + ((CHOOSE i \in DOMAIN Digits : Digits[i] = text[Len(text)]) - 1)

----------------------------------------------------------------------------
(* The five re.search calls of extract_flight_details (lines 406-415),      *)
(* matched on the characters of the query as the regex engine matches       *)
(* them: the leftmost start wins, a greedy \s+ gives back one space at a    *)
(* time, and the lazy group takes the shortest text that lets the rest of   *)
(* the pattern match.                                                       *)

IsAlpha(c) == c \in (DOMAIN ToLower) \cup (DOMAIN ToUpper)

IsDigit(c) == \E i \in DOMAIN Digits : Digits[i] = c

\* the class \w
IsWord(c) == IsAlpha(c) \/ IsDigit(c) \/ c = "_"

\* the character classes of the patterns: \s, \w, \d and [A-Za-z\s]
InClass(c, cls) ==
    CASE cls = "s" -> IsSpace(c)
      [] cls = "w" -> IsWord(c)
      [] cls = "d" -> IsDigit(c)
      [] cls = "A-Za-z\\s" -> IsAlpha(c) \/ IsSpace(c)

\* how many characters of the class stand in s from position i on
RECURSIVE RunLen(_, _, _)
RunLen(s, i, cls) ==
    IF i > Len(s) \/ ~InClass(s[i], cls) THEN 0
    ELSE 1 + RunLen(s, i + 1, cls)

\* whether word stands in s at position i under re.IGNORECASE
OccursAtIgnoreCase(s, word, i) ==
    /\ i >= 1
    /\ i + Len(word) - 1 <= Len(s)
    /\ \A k \in 1..Len(word) : LowerChar(s[i + k - 1]) = word[k]

Least(S) == CHOOSE x \in S : \A y \in S : x <= y

Greatest(S) == CHOOSE x \in S : \A y \in S : y <= x

\* where group 1 of r'from\s+([A-Za-z\s]+?)\s+to' may end when it starts at p
OriginEnds(s, p) ==
    {e \in p..(p + RunLen(s, p, "A-Za-z\\s") - 1) :
        LET r == RunLen(s, e + 1, "s")
        IN  r >= 1 /\ OccursAt(s, <<"t", "o">>, e + 1 + r)}

\* r'from\s+([A-Za-z\s]+?)\s+to' matched at position i: group 1, or None
OriginMatchAt(s, i) ==
    IF ~OccursAt(s, <<"f", "r", "o", "m">>, i) THEN None
    ELSE LET ks == {k \in 1..RunLen(s, i + 4, "s") : OriginEnds(s, i + 4 + k) /= {}}
         IN  IF ks = {} THEN None
             ELSE LET p == i + 4 + Greatest(ks)
                  IN  SubSeq(s, p, Least(OriginEnds(s, p)))

\* where group 1 of r'to\s+([A-Za-z\s]+?)(?:\s|\.|$)' may end when it starts at p
DestEnds(s, p) ==
    {e \in p..(p + RunLen(s, p, "A-Za-z\\s") - 1) :
        e = Len(s) \/ IsSpace(s[e + 1]) \/ s[e + 1] = "."}

\* a variant whose group is greedy: it takes the longest text
DestMatchGreedyAt(s, i) ==
    IF ~OccursAt(s, <<"t", "o">>, i) THEN None
    ELSE LET ks == {k \in 1..RunLen(s, i + 2, "s") : DestEnds(s, i + 2 + k) /= {}}
         IN  IF ks = {} THEN None
             ELSE LET p == i + 2 + Greatest(ks)
                  IN  SubSeq(s, p, Greatest(DestEnds(s, p)))

\* r'to\s+([A-Za-z\s]+?)(?:\s|\.|$)' matched at position i: group 1, or None
DestMatchAt(s, i) ==
    IF ~OccursAt(s, <<"t", "o">>, i) THEN None
    ELSE LET ks == {k \in 1..RunLen(s, i + 2, "s") : DestEnds(s, i + 2 + k) /= {}}
         IN  IF ks = {} THEN None
             ELSE LET p == i + 2 + Greatest(ks)
                  IN  SubSeq(s, p, Least(DestEnds(s, p)))

\* (?:st|nd|rd|th) at position i, under re.IGNORECASE
OrdinalAt(s, i) ==
    \E w \in {<<"s", "t">>, <<"n", "d">>, <<"r", "d">>, <<"t", "h">>} :
        OccursAtIgnoreCase(s, w, i)

\* The date pattern is matched piece by piece. A match in progress is the
\* position it has reached and the groups it has captured; each piece takes
\* the matches in progress, at most one, to those that get past it.

\* a word of the pattern, under re.IGNORECASE
PastWord(s, M, word) ==
    {[pos |-> m.pos + Len(word), groups |-> m.groups] :
        m \in {x \in M : OccursAtIgnoreCase(s, word, x.pos)}}

\* \s+
PastSpaces(s, M) ==
    {[pos |-> m.pos + RunLen(s, m.pos, "s"), groups |-> m.groups] :
        m \in {x \in M : x.pos <= Len(s) /\ InClass(s[x.pos], "s")}}

\* (\w+) or (\d+): the whole run of the class, captured
PastGroup(s, M, cls) ==
    UNION {{[pos |-> e, groups |-> Append(m.groups, SubSeq(s, m.pos, e - 1))] :
                e \in {m.pos + RunLen(s, m.pos, cls)} \ {m.pos}} : m \in M}

\* (?:st|nd|rd|th)?
PastOrdinal(s, M) ==
    {[pos |-> IF OrdinalAt(s, m.pos) THEN m.pos + 2 ELSE m.pos, groups |-> m.groups] :
        m \in M}

\* (\w+)\s+(\d+)(?:st|nd|rd|th)?
PastMonthAndDay(s, M) ==
    PastOrdinal(s, PastGroup(s, PastSpaces(s, PastGroup(s, M, "w")), "d"))

\* the date pattern matched at position i, with its leading from\s+ (line 410)
\* or without it (line 412): groups 1 to 4, or None
DateMatchAt(s, i, with_from) ==
    LET start == {[pos |-> i, groups |-> <<>>]}
        lead == IF with_from
                THEN PastSpaces(s, PastWord(s, start, <<"f", "r", "o", "m">>))
                ELSE start
        depart == PastSpaces(s, PastMonthAndDay(s, lead))
        return == PastMonthAndDay(s, PastSpaces(s, PastWord(s, depart, <<"t", "o">>)))
        found == {m.groups : m \in return} \cup {None}
    IN  CHOOSE g \in found : g /= None \/ found = {None}

\* r'budget\s+(?:is\s+|of\s+)?[$]?(\d+)' matched at position i: group 1, or None
BudgetMatchAt(s, i) ==
    LET a == i + 6 + RunLen(s, i + 6, "s")
        verb == /\ OccursAt(s, <<"i", "s">>, a) \/ OccursAt(s, <<"o", "f">>, a)
                /\ RunLen(s, a + 2, "s") >= 1
        b == IF verb THEN a + 2 + RunLen(s, a + 2, "s") ELSE a
        c == IF b <= Len(s) /\ s[b] = "$" THEN b + 1 ELSE b
        d == RunLen(s, c, "d")
    IN  IF /\ OccursAt(s, <<"b", "u", "d", "g", "e", "t">>, i)
           /\ a > i + 6
           /\ d >= 1
        THEN SubSeq(s, c, c + d - 1)
        ELSE None

\* r'(\d+)\s+(?:people|persons|passengers)' matched at position i: group 1, or None
PeopleMatchAt(s, i) ==
    LET d == RunLen(s, i, "d")
        sp == RunLen(s, i + d, "s")
    IN  IF /\ d >= 1
           /\ sp >= 1
           /\ \E w \in {<<"p", "e", "o", "p", "l", "e">>,
                        <<"p", "e", "r", "s", "o", "n", "s">>,
                        <<"p", "a", "s", "s", "e", "n", "g", "e", "r", "s">>} :
                  OccursAt(s, w, i + d + sp)
        THEN SubSeq(s, i, i + d - 1)
        ELSE None

\* re.search: the match at the leftmost position that has one, or None
OriginSearch(s) ==
    LET hits == {i \in 1..Len(s) : OriginMatchAt(s, i) /= None}
    IN  IF hits = {} THEN None ELSE OriginMatchAt(s, Least(hits))

DestSearch(s) ==
    LET hits == {i \in 1..Len(s) : DestMatchAt(s, i) /= None}
    IN  IF hits = {} THEN None ELSE DestMatchAt(s, Least(hits))

\* lines 410-412: the pattern with `from` first, the one without it otherwise
DateSearch(s) ==
    LET hits == {i \in 1..Len(s) : DateMatchAt(s, i, TRUE) /= None}
        more == {i \in 1..Len(s) : DateMatchAt(s, i, FALSE) /= None}
    IN  IF hits /= {} THEN DateMatchAt(s, Least(hits), TRUE)
        ELSE IF more /= {} THEN DateMatchAt(s, Least(more), FALSE)
        ELSE None

BudgetSearch(s) ==
    LET hits == {i \in 1..Len(s) : BudgetMatchAt(s, i) /= None}
    IN  IF hits = {} THEN None ELSE BudgetMatchAt(s, Least(hits))

PeopleSearch(s) ==
    LET hits == {i \in 1..Len(s) : PeopleMatchAt(s, i) /= None}
    IN  IF hits = {} THEN None ELSE PeopleMatchAt(s, Least(hits))

\* what the five patterns match in a query
MatchPatterns(query) ==
    [origin_match |-> OriginSearch(query),
     dest_match |-> DestSearch(query),
     date_match |-> DateSearch(query),
     budget_match |-> BudgetSearch(query),
     people_match |-> PeopleSearch(query)]

\* a variant that gives each date as soon as its own month is known
ExtractFlightDetailsEachDate(q) ==
    LET origin == IF q.origin_match /= None THEN Strip(q.origin_match) ELSE <<>>
        destination == IF q.dest_match /= None THEN Strip(q.dest_match) ELSE <<>>
        depart_month == IF q.date_match /= None THEN MonthOf(q.date_match[1]) ELSE 0
        return_month == IF q.date_match /= None THEN MonthOf(q.date_match[3]) ELSE 0
        has_budget == q.budget_match /= None
    IN  [origin |-> origin,
         destination |-> destination,
         departure_date |-> IF depart_month /= 0
                            THEN IsoDate(depart_month, ParseInt(q.date_match[2]))
                            ELSE None,
         return_date |-> IF return_month /= 0
                         THEN IsoDate(return_month, ParseInt(q.date_match[4]))
                         ELSE None,
         budget |-> IF has_budget THEN ParseInt(q.budget_match) ELSE None,
         passengers |-> IF q.people_match /= None THEN ParseInt(q.people_match) ELSE 1,
         flight_budget |-> IF has_budget /\ ParseInt(q.budget_match) /= 0
                           THEN [tenths |-> 4 * ParseInt(q.budget_match)]
                           ELSE None]

\* extract_flight_details(query), lines 417-456. Amounts are whole dollars;
\* flight_budget, 0.4 * budget, is kept in tenths of a dollar.
ExtractFlightDetails(q) ==
    LET origin == IF q.origin_match /= None THEN Strip(q.origin_match) ELSE <<>>
        destination == IF q.dest_match /= None THEN Strip(q.dest_match) ELSE <<>>
        depart_month == IF q.date_match /= None THEN MonthOf(q.date_match[1]) ELSE 0
        return_month == IF q.date_match /= None THEN MonthOf(q.date_match[3]) ELSE 0
        dated == q.date_match /= None /\ depart_month /= 0 /\ return_month /= 0
        has_budget == q.budget_match /= None
    IN  [origin |-> origin,
         destination |-> destination,
         departure_date |-> IF dated
                            THEN IsoDate(depart_month, ParseInt(q.date_match[2]))
                            ELSE None,
         return_date |-> IF dated
                         THEN IsoDate(return_month, ParseInt(q.date_match[4]))
                         ELSE None,
         budget |-> IF has_budget THEN ParseInt(q.budget_match) ELSE None,
         passengers |-> IF q.people_match /= None THEN ParseInt(q.people_match) ELSE 1,
         flight_budget |-> IF has_budget /\ ParseInt(q.budget_match) /= 0
                           THEN [tenths |-> 4 * ParseInt(q.budget_match)]
                           ELSE None]

\* a variant that does not ask for the departure date
DetailsValidNoDate(details) ==
    /\ Truthy(details.origin)
    /\ Truthy(details.destination)

\* all([origin, destination, departure_date]) of get_flight_recommendations
DetailsValid(details) ==
    /\ Truthy(details.origin)
    /\ Truthy(details.destination)
    /\ Truthy(details.departure_date)

\* get_flight_recommendations(user_query): every outcome [ret, map, calls, raised]
GetFlightRecommendations(map, key, q) ==
    LET details == ExtractFlightDetails(q)
    IN  IF ~DetailsValid(details)
        THEN {Resolved([error |-> <<"Missing critical info (origin, destination, or date) in query.">>,
                        details |-> details], map, <<>>)}
        ELSE UNION {IF o.raised /= "" THEN {o}
          ELSE UNION {IF d.raised /= "" THEN {Raised(d.raised, d.map, o.calls \o d.calls)}
            ELSE {IF f.raised /= ""
                  THEN Raised(f.raised, f.map, (o.calls \o d.calls) \o f.calls)
                  ELSE Resolved(
                         IF "error" \in DOMAIN f.ret
                         THEN Merge(f.ret, [extracted |-> details])
                         ELSE Merge(f.ret,
                                [extracted |-> details,
                                 airport_codes |->
                                   [origin |-> [city |-> details.origin, skyId |-> o.ret],
                                    destination |-> [city |-> details.destination,
                                                     skyId |-> d.ret]]]),
                         f.map, (o.calls \o d.calls) \o f.calls) :
                  f \in GetFlights(d.map, key, details.origin, details.destination,
                                   details.departure_date, details.return_date,
                                   details.passengers)} :
            d \in GetSkyIdDynamic(o.map, key, details.destination)} :
          o \in GetSkyIdDynamic(map, key, details.origin)}

----------------------------------------------------------------------------
(* code/main.py: the model-based pipeline and the HTTP endpoint *)

\* FlightAgent.sky_id_map of code/main.py, lines 38-41
MainSkyIdMap ==
    LET keys == {<<"n", "e", "w", " ", "y", "o", "r", "k">>, <<"d", "a", "l", "l", "a", "s">>, <<"p", "a", "r", "i", "s">>,
                 <<"l", "o", "s", " ", "a", "n", "g", "e", "l", "e", "s">>, <<"s", "a", "n", " ", "f", "r", "a", "n", "c", "i", "s", "c", "o">>, <<"s", "a", "n", " ", "j", "o", "s", "e">>}
    IN  [k \in keys |->
            CASE k = <<"n", "e", "w", " ", "y", "o", "r", "k">> -> <<"N", "Y", "C", "A">>
              [] k = <<"d", "a", "l", "l", "a", "s">> -> <<"D", "F", "W", "A">>
              [] k = <<"p", "a", "r", "i", "s">> -> <<"P", "A", "R", "I">>
              [] k = <<"l", "o", "s", " ", "a", "n", "g", "e", "l", "e", "s">> -> <<"L", "A", "X", "A">>
              [] k = <<"s", "a", "n", " ", "f", "r", "a", "n", "c", "i", "s", "c", "o">> -> <<"S", "F", "O", "A">>
              [] k = <<"s", "a", "n", " ", "j", "o", "s", "e">> -> <<"S", "J", "C", "A">>]

\* _get_sky_id(city) of code/main.py
MainGetSkyId(city) ==
    LET c == Strip(Lower(city)) IN DictGet(MainSkyIdMap, c, Upper(c) \o <<"A">>)

\* a call of the completion service and what the caller made of the reply
CompletionCall(purpose, reply) == [svc |-> "completion", purpose |-> purpose, reply |-> reply]

\* What json.loads(content) of line 74 yields when it yields a dict: the
\* fields the model was asked for, present or not, filled or not
GroqExtractions ==
    [originCity : {<<"P", "a", "r", "i", "s">>, <<"O", "s", "l", "o">>, <<>>},
     destinationCity : {<<"D", "a", "l", "l", "a", "s">>, <<"O", "s", "l", "o">>, None},
     departureDate : {Date1, <<>>},
     returnDate : {Date2, None},
     passengers : {1}]
    \cup [originCity : {<<"P", "a", "r", "i", "s">>}, destinationCity : {<<"O", "s", "l", "o">>}]
    \cup [originCity : {<<"P", "a", "r", "i", "s">>}, destinationCity : {<<"O", "s", "l", "o">>}, departureDate : {Date1}]

\* a variant that asks the completion service again after a failure
ExtractWithGroqRetry(groq) ==
    IF ~groq THEN {[ret |-> EmptyDict, calls |-> <<>>]}
    ELSE {[ret |-> e,
           calls |-> IF e = EmptyDict
                     THEN <<CompletionCall("extract", e), CompletionCall("extract", e)>>
                     ELSE <<CompletionCall("extract", e)>>] :
            e \in GroqExtractions \cup {EmptyDict}}

\* extract_with_groq(user_query): every outcome [ret, calls]. Without a
\* client (self.groq is None) the attribute access raises inside the try.
ExtractWithGroq(groq) ==
    IF ~groq THEN {[ret |-> EmptyDict, calls |-> <<>>]}
    ELSE {[ret |-> e, calls |-> <<CompletionCall("extract", e)>>] :
            e \in GroqExtractions \cup {EmptyDict}}

\* params of lines 86-94 of code/main.py
MainFlightParams(origin, destination, departure_date, return_date, passengers) ==
    [originSkyId |-> MainGetSkyId(origin),
     destinationSkyId |-> MainGetSkyId(destination),
     departureDate |-> departure_date,
     adults |-> passengers,
     cabinClass |-> "economy",
     currency |-> "USD",
     sort |-> "best"]

\* get_flights of code/main.py: every outcome [ret, calls]; the parsed body
\* is returned as it came
MainGetFlights(origin, destination, departure_date, return_date, passengers) ==
    LET params == MainFlightParams(origin, destination, departure_date, return_date,
                                   passengers)
    IN  {[ret |-> IF resp.kind = "error" THEN [error |-> resp.text]
                  ELSE [data |-> resp.body],
          calls |-> <<FlightSearchCall(params, resp)>>] : resp \in FlightResponses}

\* format_response_with_groq: every outcome [ret, calls]
FormatResponseWithGroq(groq) ==
    IF ~groq
    THEN {[ret |-> "Sorry, I couldn't generate a helpful summary.", calls |-> <<>>]}
    ELSE {[ret |-> r, calls |-> <<CompletionCall("summarize", r)>>] :
            r \in {"a summary", "Sorry, I couldn't generate a helpful summary."}}

\* the test of line 130
HasField(extracted, field) == field \in DOMAIN extracted /\ Truthy(extracted[field])

\* lines 129-130
MainValid(extracted) ==
    /\ HasField(extracted, "originCity")
    /\ HasField(extracted, "destinationCity")
    /\ HasField(extracted, "departureDate")

\* get_flight_recommendations of code/main.py: every outcome [ret, calls]
MainGetFlightRecommendations(groq) ==
    UNION {IF ~MainValid(x.ret)
           THEN {[ret |-> [error |-> <<"Missing essential flight details">>,
                           details |-> x.ret],
                  calls |-> x.calls]}
           ELSE UNION {{[ret |-> [extracted_input |-> x.ret,
                                  api_response |-> f.ret,
                                  chatbot_response |-> r.ret],
                         calls |-> (x.calls \o f.calls) \o r.calls] :
                          r \in FormatResponseWithGroq(groq)} :
                  f \in MainGetFlights(x.ret.originCity, x.ret.destinationCity,
                                       x.ret.departureDate,
                                       DictGet(x.ret, "returnDate", None),
                                       DictGet(x.ret, "passengers", 1))} :
           x \in ExtractWithGroq(groq)}

\* mock_response of lines 177-197
MockResponse ==
    [extracted_input |-> [originCity |-> "San Jose", destinationCity |-> "Dallas",
                          departureDate |-> "2026-01-15", returnDate |-> "2026-01-20",
                          passengers |-> 1],
     api_response |-> [flights |-> <<[airline |-> "DemoAir", price |-> "$199",
                                      departure |-> "2026-01-15T08:00:00",
                                      arrival |-> "2026-01-15T12:00:00",
                                      duration |-> "4h"]>>],
     chatbot_response |-> "Top result: DemoAir direct, $199. Departs 08:00, arrives 12:00."]

HttpResponse(status, body, made) == [status |-> status, body |-> body, calls |-> made]

\* a variant that serves the canned payload before looking at the query
RecommendationsMockFirst(mock, groq, user_query) ==
    IF mock THEN {HttpResponse(200, MockResponse, <<>>)}
    ELSE IF ~Truthy(user_query)
    THEN {HttpResponse(400, [detail |-> "user_query is required"], <<>>)}
    ELSE {HttpResponse(200, out.ret, out.calls) : out \in MainGetFlightRecommendations(groq)}

\* a variant without the mock branch
RecommendationsNoMock(mock, groq, user_query) ==
    IF ~Truthy(user_query)
    THEN {HttpResponse(400, [detail |-> "user_query is required"], <<>>)}
    ELSE {HttpResponse(200, out.ret, out.calls) : out \in MainGetFlightRecommendations(groq)}

\* recommendations(req), lines 168-200: every response it can give
Recommendations(mock, groq, user_query) ==
    IF ~Truthy(user_query)
    THEN {HttpResponse(400, [detail |-> "user_query is required"], <<>>)}
    ELSE IF mock THEN {HttpResponse(200, MockResponse, <<>>)}
    ELSE {HttpResponse(200, out.ret, out.calls) : out \in MainGetFlightRecommendations(groq)}

\* the routes of app: lines 163 and 168
Routes == {[method |-> "GET", path |-> "/"], [method |-> "POST", path |-> "/recommendations"]}

\* the app's answer to a request: the route's handler, 405 for a known path
\* with another method, 404 for an unknown path
App(mock, groq, req) ==
    IF [method |-> req.method, path |-> req.path] \notin Routes
    THEN IF \E r \in Routes : r.path = req.path
         THEN {HttpResponse(405, [detail |-> "Method Not Allowed"], <<>>)}
         ELSE {HttpResponse(404, [detail |-> "Not Found"], <<>>)}
    ELSE IF req.path = "/"
    THEN {HttpResponse(200, [status |-> "ok", message |-> "VoyAgent API running"], <<>>)}
    ELSE Recommendations(mock, groq, req.user_query)

----------------------------------------------------------------------------
(* code/agents/free_airport_lookup.py and intelligent_flight_agent.py *)

\* str.isupper(): a cased character, and no lower-case one
IsUpper(s) ==
    /\ \E i \in DOMAIN s : s[i] \in DOMAIN ToLower
    /\ \A i \in DOMAIN s : s[i] \notin DOMAIN ToUpper

\* positions of character c in s
Positions(s, c) == {i \in DOMAIN s : s[i] = c}

\* name.split("(")[-1].split(")")[0]: from after the last "(" up to the
\* first ")" that follows
Parenthesised(name) ==
    LET open == CHOOSE i \in Positions(name, "(") :
                    \A j \in Positions(name, "(") : j <= i
        rest == SubSeq(name, open + 1, Len(name))
        close == Positions(rest, ")")
    IN  IF close = {} THEN rest
        ELSE SubSeq(rest, 1, (CHOOSE i \in close : \A j \in close : i <= j) - 1)

\* _extract_iata_code(airport): airport.name and, from alternateNames, the
\* name of the first entry whose lang is "iata" (None without one)
ExtractIataCode(airport) ==
    IF /\ Positions(airport.name, "(") /= {}
       /\ Positions(airport.name, ")") /= {}
       /\ Len(Parenthesised(airport.name)) = 3
       /\ IsUpper(Parenthesised(airport.name))
    THEN Parenthesised(airport.name)
    ELSE airport.alt_iata

\* the local airports.csv as loaded by _load_airports_csv: no row when the
\* file cannot be read
CsvTables ==
    {<<>>,
     <<[name |-> <<"S", "t", "e", "a", "d">>, municipality |-> <<"R", "e", "n", "o">>, iata_code |-> <<>>],
       [name |-> <<"R", "e", "n", "o", " ", "T", "a", "h", "o", "e">>, municipality |-> <<"R", "e", "n", "o">>, iata_code |-> <<"R", "N", "O">>]>>}

\* the iata_code of the first of the rows `hits`, None without one
FirstRow(table, hits) ==
    IF hits = {} THEN None
    ELSE table[CHOOSE i \in hits : \A j \in hits : i <= j].iata_code

\* _find_iata_in_csv(airport_name, city)
FindIataInCsv(table, airport_name, city) ==
    LET exact == {i \in DOMAIN table :
                     Lower(table[i].name) = Lower(airport_name)
                     /\ Truthy(table[i].iata_code)}
        partial == {i \in DOMAIN table :
                       Contains(Lower(table[i].name), Lower(airport_name))
                       /\ Truthy(table[i].iata_code)}
        municipal == {i \in DOMAIN table :
                         /\ Truthy(table[i].municipality)
                         /\ Contains(Lower(table[i].municipality), Lower(city))
                         /\ Truthy(table[i].iata_code)}
    IN  IF table = <<>> THEN None
        ELSE IF FirstRow(table, exact) /= None THEN FirstRow(table, exact)
        ELSE IF FirstRow(table, partial) /= None THEN FirstRow(table, partial)
        ELSE IF Truthy(city) THEN FirstRow(table, municipal)
        ELSE None

\* a request to the geocoding service and what geocode_city made of it
GeocodeCall(city_name, reply) == [svc |-> "geocode", query |-> city_name, reply |-> reply]

\* a request to the nearby-airport service and the 'geonames' list it gave
NearbyCall(reply) == [svc |-> "nearby_airports", reply |-> reply]

\* geocode_city(city_name): every outcome [ret, calls]; ret is None (no
\* result, error status, exception) or the coordinates
GeocodeCity(city_name) ==
    {[ret |-> r, calls |-> <<GeocodeCall(city_name, r)>>] : r \in {None, <<"coords">>}}

\* 'geonames' lists of the nearby-airport service, in the order received
NearbyLists ==
    {<<>>,
     <<[name |-> <<"R", "e", "n", "o", " ", "T", "a", "h", "o", "e", " ", "(", "R", "N", "O", ")">>, alt_iata |-> None, distance |-> 5]>>,
     <<[name |-> <<"S", "t", "e", "a", "d">>, alt_iata |-> None, distance |-> 10],
       [name |-> <<"R", "e", "n", "o", " ", "T", "a", "h", "o", "e">>, alt_iata |-> <<"R", "N", "O">>, distance |-> 20]>>,
     <<[name |-> <<"C", "a", "r", "s", "o", "n", " ", "(", "C", "X", "P", ")">>, alt_iata |-> None, distance |-> 40],
       [name |-> <<"S", "t", "e", "a", "d">>, alt_iata |-> None, distance |-> 10]>>,
     <<[name |-> <<"A", "i", "r", "f", "i", "e", "l", "d", " ", "(", "x", ")">>, alt_iata |-> None, distance |-> 5]>>}

\* airports.sort(key=lambda x: x["distance_km"]): a stable sort, by insertion
RECURSIVE InsertByDistance(_, _)
InsertByDistance(sorted, airport) ==
    IF sorted = <<>> THEN <<airport>>
    ELSE IF airport.distance_km < sorted[Len(sorted)].distance_km
         THEN Append(InsertByDistance(SubSeq(sorted, 1, Len(sorted) - 1), airport),
                     sorted[Len(sorted)])
         ELSE Append(sorted, airport)

RECURSIVE SortByDistance(_)
SortByDistance(airports) ==
    IF airports = <<>> THEN <<>>
    ELSE InsertByDistance(SortByDistance(SubSeq(airports, 1, Len(airports) - 1)),
                          airports[Len(airports)])

\* lines 124-140: the candidates of a 'geonames' list, each with the code
\* found in it, nearest first
Candidates(geonames) ==
    SortByDistance([i \in DOMAIN geonames |->
                      [name |-> geonames[i].name,
                       iata_code |-> ExtractIataCode(geonames[i]),
                       distance_km |-> geonames[i].distance]])

\* find_nearby_airports(lat, lon): every outcome [ret, calls]
FindNearbyAirports(username) ==
    IF ~username THEN {[ret |-> <<>>, calls |-> <<>>]}
    ELSE {[ret |-> Candidates(l), calls |-> <<NearbyCall(l)>>] : l \in NearbyLists}

\* the loop of lines 190-198 from candidate i on
RECURSIVE FirstCode(_, _, _, _)
FirstCode(airports, i, table, city_name) ==
    IF i > Len(airports) THEN None
    ELSE IF Truthy(airports[i].iata_code) THEN airports[i].iata_code
    ELSE IF Truthy(FindIataInCsv(table, airports[i].name, city_name))
         THEN FindIataInCsv(table, airports[i].name, city_name)
         ELSE FirstCode(airports, i + 1, table, city_name)

\* FreeAirportLookup.find_airport_code(city_name): every outcome [ret, calls]
FindAirportCode(username, table, city_name) ==
    UNION {IF ~Truthy(g.ret) THEN {[ret |-> None, calls |-> g.calls]}
           ELSE {[ret |-> IF n.ret = <<>> THEN None
                          ELSE FirstCode(n.ret, 1, table, city_name),
                  calls |-> g.calls \o n.calls] : n \in FindNearbyAirports(username)} :
           g \in GeocodeCity(city_name)}

\* What json.loads(content) of line 82 yields when it yields a dict
QueryInfos ==
    [origin_city : {<<"R", "e", "n", "o">>, <<>>},
     destination_city : {<<"O", "s", "l", "o">>, None},
     departure_date : {Date1, None},
     return_date : {Date2, None},
     passengers : {1},
     max_price : {None, JNum(200)}]
    \cup [origin_city : {<<"R", "e", "n", "o">>}, destination_city : {<<"O", "s", "l", "o">>}]

\* understand_query(user_query): every outcome [ret, calls]
UnderstandQuery(groq) ==
    IF ~groq THEN {[ret |-> EmptyDict, calls |-> <<>>]}
    ELSE {[ret |-> e, calls |-> <<CompletionCall("understand", e)>>] :
            e \in QueryInfos \cup {EmptyDict}}

\* flight lists of the Fly Scraper search, each flight with its 'price'
FlyScraperLists ==
    {<<>>,
     <<[price |-> PriceNum(300)], [price |-> PriceStr(100)]>>,
     <<[price |-> PriceText], [price |-> PriceNum(300)]>>}

\* _extract_price(flight) <= max_price
WithinPrice(flight, max_price) ==
    ~FloatRaises(flight.price) /\ flight.price.v <= max_price[2]

FlyScraperCall(payload) == [svc |-> "flight_search", params |-> payload]

\* payload of lines 120-129
FlyScraperPayload(origin_code, dest_code, departure_date, return_date, passengers) ==
    LET payload == [from |-> origin_code, to |-> dest_code, date |-> departure_date,
                    adults |-> passengers,
                    type |-> IF Truthy(return_date) THEN "roundtrip" ELSE "oneway"]
    IN  IF Truthy(return_date) THEN Merge(payload, [returnDate |-> return_date])
        ELSE payload

\* search_flights_fly_scraper: every outcome [ret, calls]
SearchFlightsFlyScraper(rapid, origin_code, dest_code, departure_date, return_date, passengers, max_price) ==
    IF ~rapid THEN {[ret |-> <<>>, calls |-> <<>>]}
    ELSE LET keep(f) == WithinPrice(f, max_price)
         IN  {[ret |-> IF NumTruthy(max_price)
                       THEN SortByPrice(SelectSeq(l, keep))
                       ELSE SortByPrice(l),
               calls |-> <<FlyScraperCall(FlyScraperPayload(origin_code, dest_code,
                              departure_date, return_date, passengers))>>] :
                l \in FlyScraperLists}

IntelError(text, x) == [ret |-> [error |-> text, flights |-> <<>>], calls |-> x]

\* IntelligentFlightAgent.search_flights(user_query): every outcome [ret, calls];
\* cfg says which credentials are set
SearchFlights(cfg, table) ==
    UNION {IF x.ret = EmptyDict
           THEN {IntelError(<<"Failed to understand query">>, x.calls)}
      ELSE IF ~(HasField(x.ret, "origin_city") /\ HasField(x.ret, "destination_city"))
           THEN {IntelError(<<"Could not identify origin or destination">>, x.calls)}
      ELSE UNION {UNION {
             IF ~(Truthy(o.ret) /\ Truthy(d.ret))
             THEN {IntelError(Msg("Could not find airport codes for ",
                                  x.ret.origin_city \o <<" or ">> \o x.ret.destination_city),
                              (x.calls \o o.calls) \o d.calls)}
             ELSE IF ~HasField(x.ret, "departure_date")
             THEN {IntelError(<<"No departure date specified">>,
                              (x.calls \o o.calls) \o d.calls)}
             ELSE {[ret |-> [query_info |-> x.ret,
                             airports |->
                               [origin |-> [city |-> x.ret.origin_city, code |-> o.ret],
                                destination |-> [city |-> x.ret.destination_city,
                                                 code |-> d.ret]],
                             flights |-> f.ret,
                             total_flights |-> Len(f.ret)],
                    calls |-> ((x.calls \o o.calls) \o d.calls) \o f.calls] :
                   f \in SearchFlightsFlyScraper(cfg.rapid, o.ret, d.ret,
                            x.ret.departure_date,
                            DictGet(x.ret, "return_date", None),
                            DictGet(x.ret, "passengers", 1),
                            DictGet(x.ret, "max_price", None))} :
             d \in FindAirportCode(cfg.username, table, x.ret.destination_city)} :
             o \in FindAirportCode(cfg.username, table, x.ret.origin_city)} :
      x \in UnderstandQuery(cfg.groq)}

----------------------------------------------------------------------------
(* One FlightAgent of code/agents/flight_agent.py over its lifetime: the     *)
(* cache sky_id_map persists from call to call                              *)

\* names asked of get_sky_id_dynamic: "LA", "la", "Reno", "RENO", "el paso"
\* and " "
Cities ==
    {<<"L", "A">>, <<"l", "a">>, <<"R", "e", "n", "o">>, <<"R", "E", "N", "O">>,
     <<"e", "l", " ", "p", "a", "s", "o">>, <<" ">>}

\* names asked of get_flights
FlightCities == {<<"L", "A">>, <<"R", "e", "n", "o">>}

\* queries, as the matches of the patterns of lines 406-415
Queries ==
    [origin_match : FlightCities \cup {None},
     dest_match : FlightCities \cup {None, <<" ">>},
     date_match : {None,
                   <<<<"J", "u", "l", "y">>, <<"1", "0">>, <<"J", "u", "l">>, <<"1", "3">>>>,
                   <<<<"R", "e", "n", "o">>, <<"1", "0">>, <<"J", "u", "l", "y">>, <<"1", "3">>>>},
     budget_match : {None},
     people_match : {None, <<"2">>}]

Init ==
    /\ sky_id_map = StaticSkyIdMap
    /\ api_key \in BOOLEAN
    /\ use_mock = FALSE
    /\ memo = EmptyDict
    /\ threads = <<>>
    /\ op = "init"
    /\ args = <<>>
    /\ result = None
    /\ calls = <<>>

\* what a call leaves behind
Finish(name, arguments, out) ==
    /\ op' = name
    /\ args' = arguments
    /\ result' = [ret |-> out.ret, raised |-> out.raised]
    /\ calls' = out.calls
    /\ sky_id_map' = out.map
    /\ UNCHANGED <<api_key, use_mock, threads>>

\* memo keeps, for each name outside the static table, the code the first
\* successful get_sky_id_dynamic gave for it and the spelling it was asked in
Remember(city, out) ==
    IF /\ Lower(city) \notin DOMAIN StaticSkyIdMap
       /\ Lower(city) \notin DOMAIN memo
       /\ out.raised = ""
       /\ Truthy(out.ret)
    THEN DictSet(memo, Lower(city), [code |-> out.ret, asked |-> city])
    ELSE memo

DoGetSkyIdDynamic ==
    \E city \in Cities :
        \E out \in GetSkyIdDynamic(sky_id_map, api_key, city) :
            /\ Finish("get_sky_id_dynamic", [city |-> city], out)
            /\ memo' = Remember(city, out)

DoGetFlights ==
    \E origin \in FlightCities, destination \in FlightCities, rd \in ReturnDates :
        \E out \in GetFlights(sky_id_map, api_key, origin, destination, Date1, rd, 1) :
            /\ Finish("get_flights",
                      [origin |-> origin, destination |-> destination,
                       departure_date |-> Date1, return_date |-> rd, passengers |-> 1],
                      out)
            /\ UNCHANGED memo

Next ==
    \/ DoGetSkyIdDynamic
    \/ DoGetFlights

Spec == Init /\ [][Next]_vars

----------------------------------------------------------------------------
(* One request through each pipeline: the request is drawn in InitReq and   *)
(* the pipeline it names runs once                                          *)

\* caches a FlightAgent can have reached when the request arrives
Caches == {StaticSkyIdMap, DictSet(StaticSkyIdMap, <<"r", "e", "n", "o">>, <<"R", "N", "O">>)}

\* the user_query of the request body: absent, "", "test", " "
UserQueries == {None, <<>>, <<"t", "e", "s", "t">>, <<" ">>}

\* names asked of find_airport_code: "Reno", "Oslo"
LookupCities == {<<"R", "e", "n", "o">>, <<"O", "s", "l", "o">>}

Requests ==
    [pipeline : {"flight_agent"}, user_query : Queries]
    \cup [pipeline : {"main"}, groq : BOOLEAN]
    \cup [pipeline : {"http"}, groq : BOOLEAN, method : {"GET", "POST"},
          path : {"/", "/recommendations", "/query"}, user_query : UserQueries]
    \cup [pipeline : {"intelligent"},
          cfg : [groq : BOOLEAN, username : BOOLEAN, rapid : BOOLEAN],
          table : CsvTables]
    \cup [pipeline : {"lookup"}, username : BOOLEAN, table : CsvTables,
          city_name : LookupCities]

InitReq ==
    /\ args \in Requests
    /\ sky_id_map \in (IF args.pipeline = "flight_agent" THEN Caches ELSE {StaticSkyIdMap})
    /\ api_key \in (IF args.pipeline = "flight_agent" THEN BOOLEAN ELSE {TRUE})
    /\ use_mock \in (IF args.pipeline = "http" THEN BOOLEAN ELSE {FALSE})
    /\ memo = EmptyDict
    /\ threads = <<>>
    /\ op = "call"
    /\ result = None
    /\ calls = <<>>

\* FlightAgent.get_flight_recommendations of code/agents/flight_agent.py
ReqFlightAgent ==
    /\ op = "call"
    /\ args.pipeline = "flight_agent"
    /\ \E out \in GetFlightRecommendations(sky_id_map, api_key, args.user_query) :
          /\ op' = "flight_agent"
          /\ result' = [ret |-> out.ret, raised |-> out.raised]
          /\ calls' = out.calls
          /\ sky_id_map' = out.map
    /\ UNCHANGED <<api_key, use_mock, memo, args, threads>>

\* FlightAgent.get_flight_recommendations of code/main.py, as run from the
\* command line (lines 203-206)
ReqMain ==
    /\ op = "call"
    /\ args.pipeline = "main"
    /\ \E out \in MainGetFlightRecommendations(args.groq) :
          /\ op' = "main"
          /\ result' = [ret |-> out.ret, raised |-> ""]
          /\ calls' = out.calls
    /\ UNCHANGED <<sky_id_map, api_key, use_mock, memo, args, threads>>

\* an HTTP request to app
ReqHttp ==
    /\ op = "call"
    /\ args.pipeline = "http"
    /\ \E out \in App(use_mock, args.groq, args) :
          /\ op' = "http"
          /\ result' = [status |-> out.status, body |-> out.body]
          /\ calls' = out.calls
    /\ UNCHANGED <<sky_id_map, api_key, use_mock, memo, args, threads>>

\* IntelligentFlightAgent.search_flights
ReqIntelligent ==
    /\ op = "call"
    /\ args.pipeline = "intelligent"
    /\ \E out \in SearchFlights(args.cfg, args.table) :
          /\ op' = "intelligent"
          /\ result' = [ret |-> out.ret, raised |-> ""]
          /\ calls' = out.calls
    /\ UNCHANGED <<sky_id_map, api_key, use_mock, memo, args, threads>>

\* FreeAirportLookup.find_airport_code
ReqLookup ==
    /\ op = "call"
    /\ args.pipeline = "lookup"
    /\ \E out \in FindAirportCode(args.username, args.table, args.city_name) :
          /\ op' = "lookup"
          /\ result' = [ret |-> out.ret, raised |-> ""]
          /\ calls' = out.calls
    /\ UNCHANGED <<sky_id_map, api_key, use_mock, memo, args, threads>>

NextReq ==
    \/ ReqFlightAgent
    \/ ReqMain
    \/ ReqHttp
    \/ ReqIntelligent
    \/ ReqLookup

SpecReq == InitReq /\ [][NextReq]_vars

----------------------------------------------------------------------------
(* Two requests in get_sky_id_dynamic at once on one FlightAgent. A step is *)
(* one access to sky_id_map or one request to the airport search; nothing   *)
(* in the code orders the steps of one request against the other's.         *)

\* the new cities the two requests ask for: "Reno", "el paso"
RaceCities == {<<"R", "e", "n", "o">>, <<"e", "l", " ", "p", "a", "s", "o">>}

Requesters == {1, 2}

InitRace ==
    /\ sky_id_map = StaticSkyIdMap
    /\ api_key = TRUE
    /\ use_mock = FALSE
    /\ memo = EmptyDict
    /\ op = "race"
    /\ args \in [city : RaceCities]
    /\ result = [answers |-> EmptyDict, steady |-> TRUE]
    /\ calls = <<>>
    /\ threads = [t \in Requesters |-> [pc |-> "check", sky_id |-> None, i |-> 0, ret |-> None]]

\* the requests of a call log without their responses: what the two
\* requesters asked for, in the order they asked
Queried(made) == [k \in DOMAIN made |-> [svc |-> made[k].svc, query |-> made[k].query]]

\* result keeps what the airport search has answered to each query so far,
\* and whether it has answered every query the same way each time
Heard(query, answer) ==
    IF query \in DOMAIN result.answers
    THEN [result EXCEPT !.steady = result.steady /\ result.answers[query] = answer]
    ELSE [result EXCEPT !.answers = DictSet(result.answers, query, answer)]

\* thread t moves to pc with the locals given
Goto(t, pc, sky_id, i, ret) ==
    threads' = [threads EXCEPT ![t] = [pc |-> pc, sky_id |-> sky_id, i |-> i, ret |-> ret]]

\* line 369: if city_lower in self.sky_id_map
RaceCheck(t) ==
    /\ threads[t].pc = "check"
    /\ IF CacheKey(args.city) \in DOMAIN sky_id_map
       THEN Goto(t, "hit", None, 0, None)
       ELSE Goto(t, "search", None, 0, None)
    /\ UNCHANGED <<sky_id_map, api_key, use_mock, memo, op, args, result, calls>>

\* line 371: return self.sky_id_map[city_lower]
RaceHit(t) ==
    /\ threads[t].pc = "hit"
    /\ Goto(t, "done", None, 0, sky_id_map[CacheKey(args.city)])
    /\ UNCHANGED <<sky_id_map, api_key, use_mock, memo, op, args, result, calls>>

\* line 375: sky_id = self.search_airport_code(city), and the test of line 376
RaceSearch(t) ==
    /\ threads[t].pc = "search"
    /\ \E s \in SearchAirportCode(api_key, args.city) :
          /\ calls' = calls \o Queried(s.calls)
          /\ result' = Heard(args.city, s.ret)
          /\ IF Truthy(s.ret)
             THEN Goto(t, "store", s.ret, 0, None)
             ELSE Goto(t, "vary", None, 1, None)
    /\ UNCHANGED <<sky_id_map, api_key, use_mock, memo, op, args>>

\* lines 390-400: the next variation, its search and the test of line 394
RaceVary(t) ==
    /\ threads[t].pc = "vary"
    /\ LET i == threads[t].i
           variations == Variations(args.city)
       IN  IF i > Len(variations)
           THEN Goto(t, "done", None, 0, None) /\ UNCHANGED <<calls, result>>
           ELSE IF variations[i] = args.city
           THEN Goto(t, "vary", None, i + 1, None) /\ UNCHANGED <<calls, result>>
           ELSE \E s \in SearchAirportCode(api_key, variations[i]) :
                   /\ calls' = calls \o Queried(s.calls)
                   /\ result' = Heard(variations[i], s.ret)
                   /\ IF Truthy(s.ret)
                      THEN Goto(t, "store", s.ret, i, None)
                      ELSE Goto(t, "vary", None, i + 1, None)
    /\ UNCHANGED <<sky_id_map, api_key, use_mock, memo, op, args>>

\* lines 378-380 and 395-397: self.sky_id_map[city_lower] = sky_id; return sky_id
RaceStore(t) ==
    /\ threads[t].pc = "store"
    /\ sky_id_map' = Memoize(sky_id_map, CacheKey(args.city), threads[t].sky_id)
    /\ Goto(t, "done", None, 0, threads[t].sky_id)
    /\ UNCHANGED <<api_key, use_mock, memo, op, args, result, calls>>

NextRace ==
    \E t \in Requesters :
        \/ RaceCheck(t)
        \/ RaceHit(t)
        \/ RaceSearch(t)
        \/ RaceVary(t)
        \/ RaceStore(t)

SpecRace == InitRace /\ [][NextRace]_vars

----------------------------------------------------------------------------
(* The normaliser as a pure function: the inputs are drawn in InitNorm *)

InitNorm ==
    /\ sky_id_map = EmptyDict
    /\ api_key = TRUE
    /\ use_mock = FALSE
    /\ memo = EmptyDict
    /\ threads = <<>>
    /\ op = "call"
    /\ args \in [api_response : [status : {"complete"}, itineraries : ItineraryLists],
                 return_date : ReturnDates]
    /\ result = None
    /\ calls = <<>>

\* agent._process_flight_results(api_response, return_date)
DoProcessFlightResults ==
    /\ op = "call"
    /\ op' = "_process_flight_results"
    /\ result' = ProcessFlightResults(args.api_response, args.return_date)
    /\ UNCHANGED <<sky_id_map, api_key, use_mock, memo, args, calls, threads>>

NextNorm == DoProcessFlightResults

SpecNorm == InitNorm /\ [][NextNorm]_vars

----------------------------------------------------------------------------
(* Extraction on its own: extract_flight_details applied to the text of a  *)
(* query.                                                                   *)

\* how a query names its route
RouteTexts ==
    {<<"f", "r", "o", "m", " ", "N", "e", "w", " ", "Y", "o", "r", "k", " ", "t", "o", " ", "D", "a", "l", "l", "a", "s">>,
     <<"f", "l", "y", " ", "t", "o", " ", "D", "a", "l", "l", "a", "s">>,
     <<"t", "r", "i", "p">>}

\* how a query names its dates
DateTexts ==
    {<<" ", "f", "r", "o", "m", " ", "J", "u", "l", "y", " ", "1", "0", " ", "t", "o", " ", "J", "u", "l", "y", " ", "1", "3">>,
     <<" ", "J", "u", "l", " ", "1", "0", "t", "h", " ", "t", "o", " ", "A", "u", "g", " ", "2", "n", "d">>,
     <<>>}

\* how a query names its budget
BudgetTexts ==
    {<<" ", "b", "u", "d", "g", "e", "t", " ", "5", "0", "0">>,
     <<" ", "b", "u", "d", "g", "e", "t", " ", "i", "s", " ", "$", "3", "0", "0">>,
     <<>>}

\* how a query names its travellers
PeopleTexts ==
    {<<" ", "f", "o", "r", " ", "2", " ", "p", "e", "o", "p", "l", "e">>,
     <<" ", "f", "o", "r", " ", "0", " ", "p", "e", "o", "p", "l", "e">>,
     <<" ", "f", "o", "r", " ", "t", "w", "o", " ", "p", "e", "o", "p", "l", "e">>,
     <<>>}

\* the queries extraction is checked on
QueryTexts ==
    {route \o dates \o budget \o people :
        route \in RouteTexts, dates \in DateTexts,
        budget \in BudgetTexts, people \in PeopleTexts}

InitExtract ==
    /\ sky_id_map = StaticSkyIdMap
    /\ api_key = TRUE
    /\ use_mock = FALSE
    /\ memo = EmptyDict
    /\ threads = <<>>
    /\ op = "call"
    /\ args \in [query : QueryTexts]
    /\ result = None
    /\ calls = <<>>

\* agent.extract_flight_details(query)
DoExtractFlightDetails ==
    /\ op = "call"
    /\ op' = "extract_flight_details"
    /\ result' = [ret |-> ExtractFlightDetails(MatchPatterns(args.query))]
    /\ UNCHANGED <<sky_id_map, api_key, use_mock, memo, args, calls, threads>>

NextExtract == DoExtractFlightDetails

SpecExtract == InitExtract /\ [][NextExtract]_vars

----------------------------------------------------------------------------
(* Claims about the normaliser, under SpecNorm *)

Normalised == op = "_process_flight_results"

\* the itinerary an offer was made from
SourceOf(offer) == args.api_response.itineraries[offer.itineraryId]

\* C1: every offer is a 'roundtrip' record with 'outbound' and 'return'
\* sub-records exactly when a return date was supplied and its itinerary had
\* two legs, and is otherwise a flat 'one-way' record built from its own
\* itinerary's first leg.
C1_RoundTripIffTwoLegs ==
    Normalised =>
        \A i \in DOMAIN result.data :
            LET offer == result.data[i]
                src == SourceOf(offer)
                isRound == /\ offer.type = "roundtrip"
                           /\ {"outbound", "return"} \subseteq DOMAIN offer
            IN  /\ isRound <=> (Truthy(args.return_date) /\ Len(src.legs) = 2)
                /\ ~isRound =>
                      /\ offer.type = "one-way"
                      /\ offer = OneWayOffer(src.legs[1], offer.price, src)

\* a price float() accepts
Parsable(price) == price.kind \in {"num", "numstr"}

----------------------------------------------------------------------------
(* Airport resolution *)

\* C3: get_sky_id_dynamic, called on a city whose lower-cased name is a key
\* of sky_id_map, whatever the cache has grown to, returns the mapped code
\* and calls no external service
C3_GazetteerHit ==
    [][(op' = "get_sky_id_dynamic" /\ Lower(args'.city) \in DOMAIN sky_id_map)
          => /\ result'.raised = ""
             /\ result'.ret = sky_id_map[Lower(args'.city)]
             /\ calls' = <<>>]_vars

\* "LA" answered from the static table after the cache has grown
C3_Witness ==
    /\ op = "get_sky_id_dynamic"
    /\ args.city = <<"L", "A">>
    /\ sky_id_map /= StaticSkyIdMap
    /\ result.ret = StaticSkyIdMap[<<"l", "a">>]
    /\ calls = <<>>

\* C5: once get_sky_id_dynamic has succeeded with code c on a city outside
\* the static table, every later call on that city, in any letter case,
\* returns c and calls no external service
C5_MemoizedIdempotent ==
    [][(op' = "get_sky_id_dynamic" /\ Lower(args'.city) \in DOMAIN memo)
          => /\ result'.raised = ""
             /\ result'.ret = memo[Lower(args'.city)].code
             /\ calls' = <<>>]_vars

\* "RENO" answered from what "Reno" resolved to
C5_Witness ==
    /\ op = "get_sky_id_dynamic"
    /\ args.city = <<"R", "E", "N", "O">>
    /\ <<"r", "e", "n", "o">> \in DOMAIN memo
    /\ memo[<<"r", "e", "n", "o">>].asked = <<"R", "e", "n", "o">>
    /\ result.ret = memo[<<"r", "e", "n", "o">>].code
    /\ calls = <<>>

FlightSearched == \E i \in DOMAIN calls : calls[i].svc = "flight_search"

\* a name get_sky_id_dynamic has a code for once the call is over
HasCode(city) == Lower(city) \in DOMAIN sky_id_map

\* C6: in get_flights, an origin that resolves and a destination that does
\* not give an error naming the destination and no flight-search request;
\* no flight-search request is made unless both resolved
C6_DestinationUnresolved ==
    (op = "get_flights" /\ result.raised = "")
        => /\ (HasCode(args.origin) /\ ~HasCode(args.destination))
                => /\ "error" \in DOMAIN result.ret
                   /\ result.ret.error
                        = Msg("Could not find airport code for destination: ",
                              args.destination)
                   /\ ~FlightSearched
           /\ FlightSearched => (HasCode(args.origin) /\ HasCode(args.destination))

\* "LA" to "Reno" with the airport search finding nothing for "Reno"
C6_Witness ==
    /\ op = "get_flights"
    /\ args.origin = <<"L", "A">>
    /\ args.destination = <<"R", "e", "n", "o">>
    /\ ~HasCode(args.destination)
    /\ calls /= <<>>
    /\ ~FlightSearched
    /\ "error" \in DOMAIN result.ret

\* what the completion service's reply was parsed to, EmptyDict without one
Reply(purpose) ==
    LET made == {i \in DOMAIN calls :
                    calls[i].svc = "completion" /\ calls[i].purpose = purpose}
    IN  IF made = {} THEN EmptyDict ELSE calls[CHOOSE i \in made : TRUE].reply

\* the upper-cased name followed by "A"
Synthesized(city) == Upper(city) \o <<"A">>

\* C4: a city outside the gazetteer that no external source knows ends the
\* resolution in an explicit failure, and no pipeline sends its upper-cased
\* name followed by "A" to the flight search as originSkyId or
\* destinationSkyId
C4_NoSynthesizedCode ==
    /\ (op = "flight_agent" /\ result.raised = "")
          => LET details == ExtractFlightDetails(args.user_query)
             IN  /\ (/\ Truthy(details.origin)
                     /\ Truthy(details.destination)
                     /\ Truthy(details.departure_date)
                     /\ ~(HasCode(details.origin) /\ HasCode(details.destination)))
                       => ("error" \in DOMAIN result.ret /\ ~FlightSearched)
                 /\ \A i \in DOMAIN calls :
                       calls[i].svc = "flight_search"
                         => /\ calls[i].params.originSkyId /= Synthesized(details.origin)
                            /\ calls[i].params.destinationSkyId
                                 /= Synthesized(details.destination)
    /\ op \in {"main", "http"}
          => \A i \in DOMAIN calls :
                calls[i].svc = "flight_search"
                  => LET extracted == Reply("extract")
                     IN  /\ Strip(Lower(extracted.originCity)) \notin DOMAIN MainSkyIdMap
                              => calls[i].params.originSkyId
                                   /= Synthesized(extracted.originCity)
                         /\ Strip(Lower(extracted.destinationCity)) \notin DOMAIN MainSkyIdMap
                              => calls[i].params.destinationSkyId
                                   /= Synthesized(extracted.destinationCity)

\* the three things a search needs, as the pipeline extracted them
ExtractedComplete ==
    CASE op = "flight_agent" ->
           LET details == ExtractFlightDetails(args.user_query)
           IN  /\ Truthy(details.origin)
               /\ Truthy(details.destination)
               /\ Truthy(details.departure_date)
      [] op = "main" ->
           /\ HasField(Reply("extract"), "originCity")
           /\ HasField(Reply("extract"), "destinationCity")
           /\ HasField(Reply("extract"), "departureDate")
      [] op = "intelligent" ->
           /\ HasField(Reply("understand"), "origin_city")
           /\ HasField(Reply("understand"), "destination_city")
           /\ HasField(Reply("understand"), "departure_date")

ExtractionCalls ==
    {i \in DOMAIN calls :
        calls[i].svc = "completion" /\ calls[i].purpose \in {"extract", "understand"}}

----------------------------------------------------------------------------
(* The HTTP endpoint *)

PostTo(path) == op = "http" /\ args.method = "POST" /\ args.path = path

\* C8 as stated: in mock mode the recommendations endpoint answers every
\* query content with status 200 and the canned payload, calling no external
\* service
C8_MockAnyQuery ==
    (PostTo("/recommendations") /\ use_mock /\ args.user_query /= None)
        => /\ result.status = 200
           /\ result.body = MockResponse
           /\ calls = <<>>

\* C8 amended: in mock mode the recommendations endpoint answers every
\* non-empty query with status 200 and the canned payload, calling no
\* external service
C8_MockNonEmptyQuery ==
    (PostTo("/recommendations") /\ use_mock /\ Truthy(args.user_query))
        => /\ result.status = 200
           /\ result.body = MockResponse
           /\ calls = <<>>

\* the query " " answered in mock mode
C8_Witness ==
    /\ PostTo("/recommendations")
    /\ use_mock
    /\ args.user_query = <<" ">>
    /\ result.status = 200
    /\ result.body = MockResponse

\* C9: in mock mode a POST to /query with a non-empty user_query is answered
\* with status 200 and a body whose api_response has flights
C9_QueryRoute ==
    (PostTo("/query") /\ use_mock /\ Truthy(args.user_query))
        => /\ result.status = 200
           /\ "api_response" \in DOMAIN result.body
           /\ "flights" \in DOMAIN result.body.api_response

\* C10: a request to the recommendations endpoint without a user_query is
\* answered with status 400 and no external service is called, in mock mode
\* and in live mode
C10_AbsentQueryRejected ==
    (PostTo("/recommendations") /\ args.user_query = None)
        => /\ result.status = 400
           /\ calls = <<>>

\* no user_query, in mock mode
C10_Witness ==
    /\ PostTo("/recommendations")
    /\ use_mock
    /\ args.user_query = None
    /\ result.status = 400
    /\ calls = <<>>

----------------------------------------------------------------------------
(* Failures of the external services *)

FlightCalls == {i \in DOMAIN calls : calls[i].svc = "flight_search"}

AirportCalls == {i \in DOMAIN calls : calls[i].svc = "airport_search"}

\* C11: when the flight-search request of get_flights fails, get_flights
\* returns, without raising, a result with the failure text under 'error'
\* and an empty offer list
C11_FailureWithEmptyList ==
    (op = "get_flights" /\ \E i \in FlightCalls : calls[i].reply.kind = "error")
        => /\ result.raised = ""
           /\ "error" \in DOMAIN result.ret
           /\ \A i \in FlightCalls : result.ret.error = calls[i].reply.text
           /\ "data" \in DOMAIN result.ret
           /\ result.ret.data = <<>>

\* C12: get_sky_id_dynamic lets no exception escape, whatever the city and
\* whatever the airport search answers, so get_flights always returns a
\* result
C12_NoExceptionEscapes ==
    op \in {"get_sky_id_dynamic", "get_flights"} => result.raised = ""

\* C14: an airport-search call that errors during a get_sky_id_dynamic
\* resolution that returns is the last call of that resolution, and the
\* resolution fails
C14_NoCallAfterFailure ==
    (op = "get_sky_id_dynamic" /\ result.raised = "")
        => \A i \in AirportCalls :
              calls[i].reply.kind = "error"
                => /\ i = Len(calls)
                   /\ ~Truthy(result.ret)

\* C18: get_flights makes at most one flight-search request, and when the
\* response says 'incomplete' it makes that one request only and returns the
\* normalisation of the partial data
C18_IncompleteReturnedAsIs ==
    op = "get_flights"
        => /\ Cardinality(FlightCalls) <= 1
           /\ \A i \in FlightCalls :
                 (calls[i].reply.kind = "ok" /\ calls[i].reply.body.status = "incomplete")
                   => /\ result.raised = ""
                      /\ result.ret = ProcessFlightResults(calls[i].reply.body,
                                                           args.return_date)

\* an incomplete response with one itinerary, returned as one offer
C18_Witness ==
    /\ op = "get_flights"
    /\ \E i \in FlightCalls :
          /\ calls[i].reply.kind = "ok"
          /\ calls[i].reply.body.status = "incomplete"
          /\ Len(calls[i].reply.body.itineraries) = 1
    /\ "count" \in DOMAIN result.ret
    /\ result.ret.count = 1

\* C15: when geocoding the city fails, the resolver goes on to a remote
\* airport search before it reports failure
C15_GeocodeFailureFallsBack ==
    op \in {"lookup", "intelligent"}
        => \A i \in DOMAIN calls :
              (calls[i].svc = "geocode" /\ ~Truthy(calls[i].reply))
                => \E j \in DOMAIN calls : j > i /\ calls[j].svc = "airport_search"

\* C16: find_airport_code returns the embedded code of the nearest candidate
\* that has one; a code of the local table is returned only when no
\* candidate of the list has an embedded code
C16_NearestEmbeddedCodeWins ==
    op = "lookup"
        => \A i \in DOMAIN calls :
              calls[i].svc = "nearby_airports"
                => LET candidates == Candidates(calls[i].reply)
                       embedded == {k \in DOMAIN candidates :
                                       Truthy(candidates[k].iata_code)}
                   IN  embedded /= {}
                         => result.ret
                              = candidates[CHOOSE k \in embedded :
                                              \A j \in embedded : k <= j].iata_code

\* the pipelines whose extraction is model-based, and what each extracted
ExtractionFailed ==
    \/ op = "main" /\ Reply("extract") = EmptyDict
    \/ op = "intelligent" /\ Reply("understand") = EmptyDict

\* C17: when the completion call fails or its reply is not JSON, the
\* extraction is empty, the request ends with an error result, the completion
\* service is not called again and no other service is called
C17_ExtractionFailureIsFinal ==
    ExtractionFailed
        => /\ "error" \in DOMAIN result.ret
           /\ Cardinality(ExtractionCalls) <= 1
           /\ \A i \in DOMAIN calls : i \in ExtractionCalls

\* the composite pipeline after a reply that could not be parsed
C17_Witness ==
    /\ op = "intelligent"
    /\ Len(calls) = 1
    /\ calls[1].svc = "completion"
    /\ calls[1].reply = EmptyDict
    /\ result.ret.error = <<"Failed to understand query">>

----------------------------------------------------------------------------
(* Concurrent resolution *)

BothReturned == \A t \in DOMAIN threads : threads[t].pc = "done"

\* C13: two requests resolving the same new city at once on one sky_id_map
\* return the same code under every interleaving, and the cache ends up
\* holding that code for the city
C13_RaceGivesEqualCodes ==
    (op = "race" /\ BothReturned)
        => /\ threads[1].ret = threads[2].ret
           /\ Truthy(threads[1].ret)
                => /\ CacheKey(args.city) \in DOMAIN sky_id_map
                   /\ sky_id_map[CacheKey(args.city)] = threads[1].ret

\* C13 amended: as long as the airport search answers each query the same
\* way every time it is asked, the two requests return the same code under
\* every interleaving and the cache ends up holding that code
C13_SteadyRaceGivesEqualCodes ==
    (op = "race" /\ BothReturned /\ result.steady)
        => /\ threads[1].ret = threads[2].ret
           /\ Truthy(threads[1].ret)
                => /\ CacheKey(args.city) \in DOMAIN sky_id_map
                   /\ sky_id_map[CacheKey(args.city)] = threads[1].ret

\* both requests missed the cache, both asked the airport search and both
\* stored the code it gave
C13_Witness ==
    /\ op = "race"
    /\ BothReturned
    /\ result.steady
    /\ Len(calls) = 2
    /\ Truthy(threads[1].ret)
    /\ threads[1].ret = threads[2].ret
    /\ sky_id_map[CacheKey(args.city)] = threads[1].ret

----------------------------------------------------------------------------
(* Claims about pattern-based extraction, under SpecExtract *)

\* "from New York to Dallas from July 10 to July 13 budget 500 for 2 people"
ScenarioQuery ==
    <<"f", "r", "o", "m", " ", "N", "e", "w", " ", "Y", "o", "r", "k", " ", "t", "o", " ", "D", "a", "l", "l", "a", "s", " ", "f", "r", "o", "m", " ", "J", "u", "l", "y", " ", "1", "0">>
    \o <<" ", "t", "o", " ", "J", "u", "l", "y", " ", "1", "3", " ", "b", "u", "d", "g", "e", "t", " ", "5", "0", "0", " ", "f", "o", "r", " ", "2", " ", "p", "e", "o", "p", "l", "e">>

\* C19: for the scenario query extract_flight_details returns origin
\* 'New York', destination 'Dallas', passengers 2, budget 500, flight_budget
\* 200.0 (40% of the budget), and departure and return dates that are not
\* None and lie in the current year
C19_ScenarioExtraction ==
    (op = "extract_flight_details" /\ args.query = ScenarioQuery)
        => /\ result.ret.origin = <<"N", "e", "w", " ", "Y", "o", "r", "k">>
           /\ result.ret.destination = <<"D", "a", "l", "l", "a", "s">>
           /\ result.ret.passengers = 2
           /\ result.ret.budget = 500
           /\ result.ret.flight_budget = [tenths |-> 2000]
           /\ result.ret.departure_date /= None
           /\ result.ret.return_date /= None
           /\ SubSeq(result.ret.departure_date, 1, 4) = YearText
           /\ SubSeq(result.ret.return_date, 1, 4) = YearText

\* the scenario query has been extracted, with its dates of July 10 and 13
C19_Witness ==
    /\ op = "extract_flight_details"
    /\ args.query = ScenarioQuery
    /\ result.ret.departure_date = IsoDate(7, 10)
    /\ result.ret.return_date = IsoDate(7, 13)

\* C20: every result of extract_flight_details has a passenger count of at
\* least 1, and of exactly 1 when the query states no count
C20_PassengersAtLeastOne ==
    op = "extract_flight_details"
        => /\ result.ret.passengers >= 1
           /\ PeopleSearch(args.query) = None => result.ret.passengers = 1

----------------------------------------------------------------------------
(* Claims about what a failed resolution tells the caller, under SpecReq *)

\* error texts that name the origin, and those that name the destination
OriginTexts == {"Could not find airport code for origin: "}

DestinationTexts == {"Could not find airport code for destination: "}

\* the code find_airport_code made of what the services answered for a city
\* during the request, read from the call log
LookedUp(city) ==
    LET g == CHOOSE i \in DOMAIN calls : calls[i].svc = "geocode" /\ calls[i].query = city
    IN  IF ~Truthy(calls[g].reply) \/ ~args.cfg.username THEN None
        ELSE IF calls[g + 1].reply = <<>> THEN None
        ELSE FirstCode(Candidates(calls[g + 1].reply), 1, args.table, city)

\* the request of the intelligent pipeline asked for both cities' codes
LookedUpBoth ==
    /\ op = "intelligent"
    /\ HasField(Reply("understand"), "origin_city")
    /\ HasField(Reply("understand"), "destination_city")

\* the request of flight_agent.py reached get_flights and returned from it
ReachedGetFlights ==
    /\ op = "flight_agent"
    /\ result.raised = ""
    /\ DetailsValid(ExtractFlightDetails(args.user_query))
    /\ CacheKey(ExtractFlightDetails(args.user_query).origin)
         /= CacheKey(ExtractFlightDetails(args.user_query).destination)

\* whether get_flights resolved the city: a resolved city is in the cache
\* when the request ends, a city that failed is not
InCache(city) == CacheKey(city) \in DOMAIN sky_id_map

\* C21: when airport resolution fails for exactly one endpoint, the error
\* returned names that endpoint, origin or destination, in get_flights of
\* flight_agent.py and in search_flights of the intelligent agent
C21_ErrorNamesFailedEndpoint ==
    /\ ReachedGetFlights
          => LET details == ExtractFlightDetails(args.user_query)
             IN  /\ (~InCache(details.origin) /\ InCache(details.destination))
                       => /\ "error" \in DOMAIN result.ret
                          /\ result.ret.error[1] \in OriginTexts
                 /\ (InCache(details.origin) /\ ~InCache(details.destination))
                       => /\ "error" \in DOMAIN result.ret
                          /\ result.ret.error[1] \in DestinationTexts
    /\ LookedUpBoth
          => LET info == Reply("understand")
                 origin_code == LookedUp(info.origin_city)
                 dest_code == LookedUp(info.destination_city)
             IN  /\ (~Truthy(origin_code) /\ Truthy(dest_code))
                       => /\ "error" \in DOMAIN result.ret
                          /\ result.ret.error[1] \in OriginTexts
                 /\ (Truthy(origin_code) /\ ~Truthy(dest_code))
                       => /\ "error" \in DOMAIN result.ret
                          /\ result.ret.error[1] \in DestinationTexts

----------------------------------------------------------------------------
(* Further claims about the normaliser, under SpecNorm *)

\* the itineraries the loop of line 532 goes through
Looped == Take(args.api_response.itineraries, TopN)

\* price of lines 538-539
PriceOf(itinerary) ==
    IF itinerary.pricing.options = "missing" THEN PriceNA ELSE itinerary.pricing.amount

\* C22: with a return date present, an itinerary with a single leg is
\* normalised as the 'one-way' offer of that leg and is not what makes the
\* result an error: a result with 'error' has an itinerary with an empty
\* pricingOptions list or with two legs, and a result without 'error' holds
\* the one-way offer of every single-leg itinerary
C22_SingleLegIsOneWay ==
    (Normalised /\ Truthy(args.return_date))
        => /\ "error" \in DOMAIN result
                => \E i \in DOMAIN Looped :
                      /\ Looped[i].legs /= <<>>
                      /\ Looped[i].pricing.options = "empty" \/ Len(Looped[i].legs) = 2
           /\ "error" \notin DOMAIN result
                => \A i \in DOMAIN Looped :
                      Len(Looped[i].legs) = 1
                          => \E k \in DOMAIN result.data :
                                result.data[k] = OneWayOffer(Looped[i].legs[1],
                                                             PriceOf(Looped[i]), Looped[i])

\* a return date is present, the first itinerary has the single leg LegB,
\* and the result holds its one-way offer and no error
C22_Witness ==
    /\ Normalised
    /\ Truthy(args.return_date)
    /\ Len(Looped) = 2
    /\ Looped[1].legs = <<LegB>>
    /\ "error" \notin DOMAIN result
    /\ \E k \in DOMAIN result.data :
          result.data[k] = OneWayOffer(LegB, PriceOf(Looped[1]), Looped[1])

----------------------------------------------------------------------------
(* Claims about the request sent to the flight search, under SpecReq *)

\* params is a round-trip request with the return date exactly when one was
\* supplied, and asks for economy, USD and the price order
RequestFor(params, return_date) ==
    /\ "returnDate" \in DOMAIN params <=> Truthy(return_date)
    /\ "returnDate" \in DOMAIN params => params.returnDate = return_date
    /\ params.cabinClass = "economy"
    /\ params.currency = "USD"
    /\ params.sort = "price"

\* C23: the request sent to the flight search carries the return date if
\* and only if a return date was supplied to get_flights, and always carries
\* economy cabin class, USD currency and price sort order, in get_flights of
\* code/agents/flight_agent.py and of code/main.py
C23_RequestFollowsReturnDate ==
    /\ op = "flight_agent"
          => \A i \in FlightCalls :
                RequestFor(calls[i].params,
                           ExtractFlightDetails(args.user_query).return_date)
    /\ op = "main"
          => \A i \in FlightCalls :
                RequestFor(calls[i].params,
                           DictGet(Reply("extract"), "returnDate", None))

----------------------------------------------------------------------------
(* Claims about absent credentials, under SpecReq *)

NearbyCalls == {i \in DOMAIN calls : calls[i].svc = "nearby_airports"}

\* C24: without the API key no request goes to the airport search and a
\* city outside the gazetteer ends in the failure of its endpoint, while
\* cities in the gazetteer resolve to their mapped codes; without the
\* GeoNames username no request goes to the nearby-airport service and
\* find_airport_code returns None
C24_AbsentCredentialFailsSoftly ==
    /\ (op = "flight_agent" /\ ~api_key)
          => /\ result.raised = ""
             /\ AirportCalls = {}
             /\ DetailsValid(ExtractFlightDetails(args.user_query))
                   => LET details == ExtractFlightDetails(args.user_query)
                      IN  /\ ~InCache(details.origin)
                                => /\ "error" \in DOMAIN result.ret
                                   /\ result.ret.error[1] \in OriginTexts
                          /\ (InCache(details.origin) /\ ~InCache(details.destination))
                                => /\ "error" \in DOMAIN result.ret
                                   /\ result.ret.error[1] \in DestinationTexts
                          /\ (InCache(details.origin) /\ InCache(details.destination))
                                => /\ FlightCalls /= {}
                                   /\ \A i \in FlightCalls :
                                         /\ calls[i].params.originSkyId
                                              = sky_id_map[CacheKey(details.origin)]
                                         /\ calls[i].params.destinationSkyId
                                              = sky_id_map[CacheKey(details.destination)]
    /\ (op = "lookup" /\ ~args.username)
          => /\ NearbyCalls = {}
             /\ result.ret = None
    /\ (op = "intelligent" /\ ~args.cfg.username)
          => NearbyCalls = {}

\* without the API key, "LA" resolved from the gazetteer and "Reno", which is
\* not in it, failed as the destination without a request
C24_Witness ==
    /\ op = "flight_agent"
    /\ ~api_key
    /\ DetailsValid(ExtractFlightDetails(args.user_query))
    /\ InCache(ExtractFlightDetails(args.user_query).origin)
    /\ ~InCache(ExtractFlightDetails(args.user_query).destination)
    /\ result.ret.error[1] \in DestinationTexts
    /\ calls = <<>>


\* the offers of result.data made from itinerary i
OffersOf(i) == {k \in DOMAIN result.data : result.data[k].itineraryId = i}

\* C25: the result holds exactly one offer for each of the first 10
\* itineraries that has at least one leg, whatever its price, and none for
\* any other itinerary; so it holds at most 10 offers
C25_OneOfferPerItinerary ==
    Normalised
        => /\ \A i \in DOMAIN args.api_response.itineraries :
                 Cardinality(OffersOf(i))
                    = IF i <= TopN /\ args.api_response.itineraries[i].legs /= <<>>
                      THEN 1 ELSE 0
           /\ Len(result.data) <= TopN

----------------------------------------------------------------------------
(* Further claims about one FlightAgent over its lifetime, under Spec *)

\* C26: a call of get_sky_id_dynamic on a city that is not in the cache
\* returns without raising; its airport-search calls, four at most, ask for
\* the city and then for the no-spaces, first-word and alias-substituted
\* variants that differ from it, in that order, each after the one before it
\* has missed; a hit is returned and cached under the lower-cased city, and
\* when all miss the call returns None and leaves the cache as it was
C26_VariantsInOrder ==
    [][(op' = "get_sky_id_dynamic" /\ Lower(args'.city) \notin DOMAIN sky_id_map)
          => /\ result'.raised = ""
             /\ LET city == args'.city
                    differs(v) == v /= city
                    asked == <<city>> \o SelectSeq(Tail(Variations(city)), differs)
                    n == Len(calls')
                    hit(i) == Truthy(SearchReturn(calls'[i].reply))
                IN  /\ n <= 4
                    /\ n <= Len(asked)
                    /\ \A i \in 1..n : /\ calls'[i].svc = "airport_search"
                                       /\ calls'[i].query = asked[i]
                    /\ \A i \in 1..(n - 1) : ~hit(i)
                    /\ IF n >= 1 /\ hit(n)
                       THEN /\ result'.ret = SearchReturn(calls'[n].reply)
                            /\ sky_id_map' = DictSet(sky_id_map, Lower(city), result'.ret)
                       ELSE /\ api_key => n = Len(asked)
                            /\ result'.ret = None
                            /\ sky_id_map' = sky_id_map]_vars

----------------------------------------------------------------------------
(* Further claims about one request, under SpecReq *)

\* C27: in every successful result of get_flight_recommendations of
\* flight_agent.py, the codes echoed under 'airport_codes' are the origin
\* and destination codes sent to the flight search for that request,
\* whatever the airport search answered to the resolutions of the request
C27_EchoedCodesWereSent ==
    (op = "flight_agent" /\ result.raised = "" /\ "airport_codes" \in DOMAIN result.ret)
        => /\ FlightCalls /= {}
           /\ \A i \in FlightCalls :
                 /\ calls[i].params.originSkyId = result.ret.airport_codes.origin.skyId
                 /\ calls[i].params.destinationSkyId
                      = result.ret.airport_codes.destination.skyId

----------------------------------------------------------------------------
(* Claims about the cache of one FlightAgent, under Spec *)

\* C28: over any sequence of calls on one FlightAgent the cache only grows:
\* no entry is changed or removed, a resolution that fails leaves the cache
\* as it was, and no entry maps a city to an empty or null code
C28_CacheOnlyGrows ==
    [][/\ \A k \in DOMAIN sky_id_map :
             /\ Truthy(sky_id_map[k])
             /\ k \in DOMAIN sky_id_map'
             /\ sky_id_map'[k] = sky_id_map[k]
       /\ \A k \in DOMAIN sky_id_map' : Truthy(sky_id_map'[k])
       /\ (op' = "get_sky_id_dynamic" /\ ~Truthy(result'.ret))
             => sky_id_map' = sky_id_map]_vars

\* a resolution has failed after its airport-search calls, on a cache that
\* had grown by two entries before, and the cache holds what it held
C28_Witness ==
    /\ op = "get_sky_id_dynamic"
    /\ ~Truthy(result.ret)
    /\ calls /= <<>>
    /\ DOMAIN sky_id_map = DOMAIN StaticSkyIdMap \cup DOMAIN memo
    /\ Cardinality(DOMAIN memo) = 2
    /\ \A k \in DOMAIN memo : sky_id_map[k] = memo[k].code

----------------------------------------------------------------------------
(* Claims about the dates of a request, under SpecReq *)

\* C29: what extract_flight_details returns has departure_date and
\* return_date both None or both not None, so every request that
\* get_flight_recommendations of flight_agent.py sends to the flight search
\* carries the return date extracted
C29_DatesComeInPairs ==
    op = "flight_agent"
        => LET details == ExtractFlightDetails(args.user_query)
           IN  /\ details.departure_date = None <=> details.return_date = None
               /\ \A i \in FlightCalls :
                     /\ "returnDate" \in DOMAIN calls[i].params
                     /\ calls[i].params.returnDate = details.return_date
                     /\ Truthy(calls[i].params.returnDate)

\* a request reached the flight search, with the return date of its query
C29_Witness ==
    /\ op = "flight_agent"
    /\ FlightCalls /= {}
    /\ \A i \in FlightCalls : calls[i].params.returnDate = IsoDate(7, 13)

----------------------------------------------------------------------------
(* Claims about the shape of the normaliser's result, under SpecNorm *)

\* processing itinerary i of the loop fails: it has a leg and its
\* pricingOptions list is empty, or it is the first itinerary with a leg, has
\* two legs and a return date is present
FailsOn(i) ==
    /\ Looped[i].legs /= <<>>
    /\ \/ Looped[i].pricing.options = "empty"
       \/ /\ Truthy(args.return_date)
          /\ Len(Looped[i].legs) = 2
          /\ \A j \in 1..(i - 1) : Looped[j].legs = <<>>

\* C30: every result has 'count' equal to the length of 'data', and when
\* processing one itinerary fails the result carries 'error' with an empty
\* 'data' and count 0, not the offers made before the failure; a result with
\* 'error' never holds offers
C30_CountAndAllOrNothing ==
    Normalised
        => /\ result.count = Len(result.data)
           /\ (\E i \in DOMAIN Looped : FailsOn(i))
                 => /\ "error" \in DOMAIN result
                    /\ result.data = <<>>
                    /\ result.count = 0
           /\ "error" \in DOMAIN result => result.data = <<>>

\* the first itinerary has a leg and a price, the second a leg and an empty
\* pricingOptions list, and the result is the error with no offer
C30_Witness ==
    /\ Normalised
    /\ Len(Looped) = 2
    /\ Len(Looped[1].legs) = 1
    /\ Looped[1].pricing.options = "present"
    /\ Len(Looped[2].legs) = 1
    /\ Looped[2].pricing.options = "empty"
    /\ "error" \in DOMAIN result
    /\ result.data = <<>>
    /\ result.count = 0

====
